---- MODULE Spec2Model ----
(***************************************************************************)
(* A model of the CI-V session layer of Dygear/ci-v: the frame codec       *)
(* (civ-protocol/src/protocol.rs), the BCD codec (src/bcd.rs), the command *)
(* and response model (civ-protocol/src/command.rs, src/response.rs), the  *)
(* blocking session (src/radio.rs: send_command, read_response, fill_buf)  *)
(* and the polling worker (src/tui/radio_task.rs).                         *)
(*                                                                         *)
(* Spec drives the session byte by byte from a client; WorkerSpec runs     *)
(* radio_loop on top of the same session; DetectSpec runs auto_detect_baud *)
(* (civ-protocol/src/transport/serial.rs); ConfigSpec is Spec with any     *)
(* RadioConfig; CodecSpec applies Frame::to_bytes, Frame::parse and        *)
(* parse_response (civ-protocol/src/response.rs) to bounded inputs.        *)
(*                                                                         *)
(* Bytes are naturals 0..255.  An Option<u8> is a sequence of length 0 or  *)
(* 1.  A Result is a record with a tag; errors carry the CivError name.    *)
(* Time is counted in ticks of 50 ms, measured from the start of the       *)
(* current send_command call.                                              *)
(***************************************************************************)
EXTENDS Integers, Sequences, FiniteSets, TLC

\* ------------------------------------------------------------------ bounds
\* config.timeout in ticks (RadioConfig.timeout is a configuration value).
Timeout == 3
\* How many items (frames, malformed runs, noise bytes) the device emits.
MaxItems == 2
\* How many send_command calls the client makes.
MaxCalls == 2
\* How many times a transport operation fails with an I/O error or the
\* device misbehaves towards the worker.
MaxFaults == 1
\* How many iterations of the worker loop are followed.
MaxIters == 2
\* How many RadioCommands the frontend sends.
MaxEnqueue == 2
\* How many items the line delivers during bit-rate discovery.
MaxChunks == 3
\* The longest data of a constructed frame.
MaxData == 2
\* The longest run of bytes put in front of an encoded frame.
MaxGarbage == 2
\* The longest buffer handed to Frame::parse as it is.
MaxRaw == 7
\* The longest short data of an answer frame handed to parse_response.
MaxAnswerData == 4
\* The largest value handed to encode_bcd_le / encode_bcd_be on their own,
\* and the largest number of bytes asked for.
MaxBcdValue == 10100
MaxBcdLen == 2
\* The number of runs of bytes in a stream fed to the FrameBuffer, and the
\* number of calls of feed.
MaxFeedRuns == 3
MaxFeeds == 3

\* --------------------------------------------------------- wire constants
PREAMBLE == 254
EOM == 253
OK == 251
NG == 250
ADDR_ID52 == 180
ADDR_CONTROLLER == 224

\* command bytes
READ_FREQ == 3
READ_MODE == 4
SET_FREQ == 5
SET_MODE == 6
VFO_MODE == 7
READ_OFFSET == 12
READ_DUPLEX == 15
LEVEL == 20
METER == 21
VARIOUS == 22
POWER == 24
READ_ID == 25
READ_GPS == 35
TONE == 27
\* sub-command bytes
AF_LEVEL == 1
SQUELCH == 3
RF_POWER == 10
TONE_SQUELCH_FUNC == 93
REPEATER_TONE == 0
TSQL_TONE == 1
DTCS == 2
S_METER == 2
VFO_A == 208
VFO_B == 209
OFF == 0
ON == 1
\* mode and filter bytes
MODE_FM == 5
MODE_AM == 2
MODE_DV == 23
FILTER_WIDE == 1
FILTER_NARROW == 2
\* 9_999_999_999 / 100, the largest frequency in units of 100 Hz.
MAX_HZ_DIV_100 == 99999999

\* Duration::from_millis(100), in ticks.
READ_SLICE == 2
\* let mut tmp = [0u8; 128]
TMP_LEN == 128
\* u16::MAX, the largest tone frequency a caller can pass
U16_MAX == 65535
\* The data bytes of a GPS position answer.
GPS_DATA_LEN == 27

\* ----------------------------------------------------------------- helpers
Min(a, b) == IF a <= b THEN a ELSE b
SetMin(S) == CHOOSE x \in S : \A y \in S : x <= y
None == <<>>
Some(x) == <<x>>

\* ------------------------------------------------------------- Frame codec
\* Frame::new: a frame from the controller to the radio.
Frame_new(command, sub_command, data) ==
    [dst |-> ADDR_ID52, src |-> ADDR_CONTROLLER, command |-> command,
     sub_command |-> sub_command, data |-> data]

\* Frame::to_bytes with the data pushed before the sub-command
to_bytes_data_first(f) ==
    <<PREAMBLE, PREAMBLE, f.dst, f.src, f.command>> \o f.data \o f.sub_command \o <<EOM>>

\* Frame::to_bytes
to_bytes(f) ==
    <<PREAMBLE, PREAMBLE, f.dst, f.src, f.command>> \o f.sub_command \o f.data \o <<EOM>>

\* buf.windows(2).position(|w| w[0] == PREAMBLE && w[1] == PREAMBLE),
\* 1-based; 0 when there is none.
FindPreamble(b) ==
    LET S == {i \in 1..(Len(b) - 1) : b[i] = PREAMBLE /\ b[i + 1] = PREAMBLE}
    IN IF S = {} THEN 0 ELSE SetMin(S)

\* The terminator searched from the start of the buffer instead of from the
\* preamble.
FindEomFromBufStart(b, start) ==
    LET S == {j \in 1..Len(b) : b[j] = EOM}
    IN IF S = {} THEN 0 ELSE SetMin(S)

\* buf[start..].iter().position(|&b| b == EOM), 1-based; 0 when none.
FindEom(b, start) ==
    LET S == {j \in start..Len(b) : b[j] = EOM}
    IN IF S = {} THEN 0 ELSE SetMin(S)

\* The split with a payload of one byte taken as data without a sub-command
SplitPayloadOneByteData(command, payload) ==
    IF command = OK \/ command = NG \/ Len(payload) = 0
    THEN [sub_command |-> None, data |-> <<>>]
    ELSE IF Len(payload) = 1
    THEN [sub_command |-> None, data |-> payload]
    ELSE [sub_command |-> Some(payload[1]), data |-> Tail(payload)]

\* The (sub_command, data) split of a payload.
SplitPayload(command, payload) ==
    IF command = OK \/ command = NG \/ Len(payload) = 0
    THEN [sub_command |-> None, data |-> <<>>]
    ELSE IF Len(payload) = 1
    THEN [sub_command |-> Some(payload[1]), data |-> <<>>]
    ELSE [sub_command |-> Some(payload[1]), data |-> Tail(payload)]

\* Frame::parse: Ok(None), Err(InvalidFrame) or Ok(Some((frame, consumed))).
Frame_parse(b) ==
    LET start == FindPreamble(b) IN
    IF start = 0 THEN [tag |-> "None"]
    ELSE LET eom_pos == FindEom(b, start) IN
         IF eom_pos = 0 THEN [tag |-> "None"]
         ELSE LET frame_bytes == SubSeq(b, start, eom_pos) IN
              IF Len(frame_bytes) < 6 THEN [tag |-> "Err"]
              ELSE LET command == frame_bytes[5]
                       payload == SubSeq(frame_bytes, 6, Len(frame_bytes) - 1)
                       sd == SplitPayload(command, payload)
                   IN [tag |-> "Some",
                       frame |-> [dst |-> frame_bytes[3], src |-> frame_bytes[4],
                                  command |-> command,
                                  sub_command |-> sd.sub_command, data |-> sd.data],
                       consumed |-> eom_pos + 1 - start]

is_ok(f) == f.command = OK
is_ng(f) == f.command = NG

\* -------------------------------------------------------------- BCD codec
Val(v) == [tag |-> "Val", v |-> v]
Err(e) == [tag |-> "Err", err |-> e]

Reverse(s) == [i \in 1..Len(s) |-> s[Len(s) + 1 - i]]

\* CivError::InvalidBcd(byte)
InvalidBcd(byte) == [tag |-> "Err", err |-> "InvalidBcd", byte |-> byte]

\* A u64 that may exceed the integers of the checker (frequencies go up to
\* 9_999_999_999) is kept as the pair of value / 100 and value % 100.
U64(q, r) == [q |-> q, r |-> r]

\* value * 100 on such a pair
Times100(v) == U64(v.q * 100 + v.r, 0)

\* A decode_bcd_byte that takes the low nibble for the tens
decode_bcd_byte_low_first(byte) ==
    LET high == byte \div 16
        low == byte % 16
    IN IF high > 9 \/ low > 9 THEN InvalidBcd(byte) ELSE Val(low * 10 + high)

\* decode_bcd_byte
decode_bcd_byte(byte) ==
    LET high == byte \div 16
        low == byte % 16
    IN IF high > 9 \/ low > 9 THEN InvalidBcd(byte) ELSE Val(high * 10 + low)

\* encode_bcd_byte
encode_bcd_byte(value) ==
    IF value > 99 THEN InvalidBcd(value)
    ELSE Val((value \div 10) * 16 + (value % 10))

\* The decoding loop: result = result * 100 + decoded, byte after byte.
RECURSIVE DecodeLoop(_, _)
DecodeLoop(bytes, acc) ==
    IF bytes = <<>> THEN Val(acc)
    ELSE LET d == decode_bcd_byte(Head(bytes)) IN
         IF d.tag = "Err" THEN d ELSE DecodeLoop(Tail(bytes), acc * 100 + d.v)

\* A decode_bcd_le that takes the bytes in the order they come
decode_bcd_le_forward(bytes) ==
    IF bytes = <<>> THEN Val(U64(0, 0))
    ELSE LET upper == DecodeLoop(SubSeq(bytes, 1, Len(bytes) - 1), 0) IN
         IF upper.tag = "Err" THEN upper
         ELSE LET d == decode_bcd_byte(bytes[Len(bytes)]) IN
              IF d.tag = "Err" THEN d ELSE Val(U64(upper.v, d.v))

\* decode_bcd_le: the bytes are taken in reverse; the result is a u64, kept
\* as what the loop holds before its last turn (over bytes[0]) and the pair
\* that turn adds.
decode_bcd_le(bytes) ==
    IF bytes = <<>> THEN Val(U64(0, 0))
    ELSE LET upper == DecodeLoop(Reverse(Tail(bytes)), 0) IN
         IF upper.tag = "Err" THEN upper
         ELSE LET d == decode_bcd_byte(Head(bytes)) IN
              IF d.tag = "Err" THEN d ELSE Val(U64(upper.v, d.v))

\* decode_bcd_be
decode_bcd_be(bytes) == DecodeLoop(bytes, 0)

\* The encoding loop: pair = remaining % 100, remaining /= 100, len times;
\* the pairs come least significant first.
RECURSIVE EncodeLoop(_, _)
EncodeLoop(remaining, len) ==
    IF len = 0 THEN Val(<<>>)
    ELSE LET b == encode_bcd_byte(remaining % 100) IN
         IF b.tag = "Err" THEN b
         ELSE LET rest == EncodeLoop(remaining \div 100, len - 1) IN
              IF rest.tag = "Err" THEN rest ELSE Val(<<b.v>> \o rest.v)

\* encode_bcd_le: the value is a u64; the first turn of the loop takes its
\* last pair and leaves value / 100 to the turns that follow.
encode_bcd_le(value, len) ==
    IF len = 0 THEN Val(<<>>)
    ELSE LET b == encode_bcd_byte(value.r) IN
         IF b.tag = "Err" THEN b
         ELSE LET rest == EncodeLoop(value.q, len - 1) IN
              IF rest.tag = "Err" THEN rest ELSE Val(<<b.v>> \o rest.v)

\* encode_bcd_be: the same pairs, stored from the last index down.
encode_bcd_be(value, len) ==
    LET r == EncodeLoop(value, len) IN
    IF r.tag = "Err" THEN r ELSE Val(Reverse(r.v))

\* ------------------------------------------------------ Frequency and mode
\* Frequency::from_hz: hz > 9_999_999_999, tested on hz / 100.
from_hz(hz) ==
    IF hz.q > MAX_HZ_DIV_100 THEN Err("FrequencyOutOfRange") ELSE Val(hz)

\* Frequency::from_civ_bytes
Frequency_from_civ_bytes(bytes) ==
    LET hz == decode_bcd_le(bytes) IN
    IF hz.tag = "Err" THEN hz ELSE from_hz(hz.v)

\* A to_civ_bytes of four bytes
Frequency_to_civ_bytes_four(hz) == encode_bcd_le(hz, 4)

\* Frequency::to_civ_bytes
Frequency_to_civ_bytes(hz) == encode_bcd_le(hz, 5)

\* A from_civ_bytes that takes every filter but the narrow one as wide
OperatingMode_from_civ_bytes_any_filter(mode, filter) ==
    CASE mode = MODE_FM /\ filter # FILTER_NARROW -> Val("Fm")
      [] mode = MODE_FM -> Val("FmN")
      [] mode = MODE_AM /\ filter # FILTER_NARROW -> Val("Am")
      [] mode = MODE_AM -> Val("AmN")
      [] mode = MODE_DV -> Val("Dv")
      [] OTHER -> Err("UnknownMode")

\* OperatingMode::from_civ_bytes
OperatingMode_from_civ_bytes(mode, filter) ==
    CASE mode = MODE_FM /\ filter = FILTER_WIDE -> Val("Fm")
      [] mode = MODE_FM /\ filter = FILTER_NARROW -> Val("FmN")
      [] mode = MODE_AM /\ filter = FILTER_WIDE -> Val("Am")
      [] mode = MODE_AM /\ filter = FILTER_NARROW -> Val("AmN")
      [] mode = MODE_DV -> Val("Dv")
      [] OTHER -> Err("UnknownMode")

\* OperatingMode::to_civ_bytes
OperatingMode_to_civ_bytes(m) ==
    CASE m = "Fm" -> <<MODE_FM, FILTER_WIDE>>
      [] m = "FmN" -> <<MODE_FM, FILTER_NARROW>>
      [] m = "Am" -> <<MODE_AM, FILTER_WIDE>>
      [] m = "AmN" -> <<MODE_AM, FILTER_NARROW>>
      [] m = "Dv" -> <<MODE_DV, FILTER_WIDE>>

\* ------------------------------------------------------------ Command model
\* A Command is a record: its variant in tag, its arguments in the fields
\* the variant has (sub, value, freq, mode, tx_pol, rx_pol, code).
Cmd(tag) == [tag |-> tag]

\* x as u8
AsU8(x) == x % 256

\* ((x / 10) << 4) | (x % 10) on a u8
NibblesU8(x) == AsU8((x \div 10) * 16) + (x % 10)

\* Command::to_frame
to_frame(c) ==
    CASE c.tag = "ReadFrequency" -> Val(Frame_new(READ_FREQ, None, <<>>))
      [] c.tag = "SetFrequency" ->
           LET bytes == Frequency_to_civ_bytes(c.freq) IN
           IF bytes.tag = "Err" THEN bytes
           ELSE Val(Frame_new(SET_FREQ, None, bytes.v))
      [] c.tag = "ReadMode" -> Val(Frame_new(READ_MODE, None, <<>>))
      [] c.tag = "SetMode" ->
           Val(Frame_new(SET_MODE, None, OperatingMode_to_civ_bytes(c.mode)))
      [] c.tag = "SelectVfoA" -> Val(Frame_new(VFO_MODE, Some(VFO_A), <<>>))
      [] c.tag = "SelectVfoB" -> Val(Frame_new(VFO_MODE, Some(VFO_B), <<>>))
      [] c.tag = "ReadLevel" -> Val(Frame_new(LEVEL, Some(c.sub), <<>>))
      [] c.tag = "SetLevel" ->
           LET data == encode_bcd_be(c.value, 2) IN
           IF data.tag = "Err" THEN data
           ELSE Val(Frame_new(LEVEL, Some(c.sub), data.v))
      [] c.tag = "ReadMeter" -> Val(Frame_new(METER, Some(c.sub), <<>>))
      [] c.tag = "PowerOn" -> Val(Frame_new(POWER, Some(ON), <<>>))
      [] c.tag = "PowerOff" -> Val(Frame_new(POWER, Some(OFF), <<>>))
      [] c.tag = "ReadTransceiverId" -> Val(Frame_new(READ_ID, Some(0), <<>>))
      [] c.tag = "ReadVarious" -> Val(Frame_new(VARIOUS, Some(c.sub), <<>>))
      [] c.tag = "ReadDuplex" -> Val(Frame_new(READ_DUPLEX, None, <<>>))
      [] c.tag = "ReadOffset" -> Val(Frame_new(READ_OFFSET, None, <<>>))
      [] c.tag = "ReadTone" -> Val(Frame_new(TONE, Some(c.sub), <<>>))
      [] c.tag = "SetVarious" -> Val(Frame_new(VARIOUS, Some(c.sub), <<c.value>>))
      [] c.tag = "SetTone" ->
           LET ht == AsU8(c.freq \div 100)
               ut == AsU8(c.freq % 100)
           IN Val(Frame_new(TONE, Some(c.sub), <<0, NibblesU8(ht), NibblesU8(ut)>>))
      [] c.tag = "SetDtcs" ->
           LET polarity == AsU8(c.tx_pol * 16) + (c.rx_pol % 16)
               first == AsU8(c.code \div 100)
               second_third == AsU8(c.code % 100)
           IN Val(Frame_new(TONE, Some(DTCS),
                            <<polarity, NibblesU8(first), NibblesU8(second_third)>>))

\* Command::command_byte
command_byte(c) ==
    CASE c.tag = "ReadFrequency" -> READ_FREQ
      [] c.tag = "SetFrequency" -> SET_FREQ
      [] c.tag = "ReadMode" -> READ_MODE
      [] c.tag = "SetMode" -> SET_MODE
      [] c.tag \in {"SelectVfoA", "SelectVfoB"} -> VFO_MODE
      [] c.tag \in {"ReadLevel", "SetLevel"} -> LEVEL
      [] c.tag = "ReadMeter" -> METER
      [] c.tag \in {"PowerOn", "PowerOff"} -> POWER
      [] c.tag = "ReadTransceiverId" -> READ_ID
      [] c.tag \in {"ReadVarious", "SetVarious"} -> VARIOUS
      [] c.tag = "ReadDuplex" -> READ_DUPLEX
      [] c.tag = "ReadOffset" -> READ_OFFSET
      [] c.tag \in {"ReadTone", "SetTone", "SetDtcs"} -> TONE

\* The commands the client issues when it drives the session directly.
Commands == {Cmd("ReadMode"), Cmd("SelectVfoA")}

\* ----------------------------------------------------------- Response model
\* A Response is a record: its variant in tag, its contents in the fields.
\* The payload of a frame: sub_command (if present) followed by data.
Payload(f) == f.sub_command \o f.data

\* parse_frequency_response
parse_frequency_response(f) ==
    IF Len(Payload(f)) # 5 THEN Err("InvalidFrame")
    ELSE LET freq == Frequency_from_civ_bytes(Payload(f)) IN
         IF freq.tag = "Err" THEN freq ELSE [tag |-> "Frequency", hz |-> freq.v]

\* parse_mode_response
parse_mode_response(f) ==
    IF f.sub_command = None THEN Err("InvalidFrame")
    ELSE IF Len(f.data) = 0 THEN Err("InvalidFrame")
    ELSE LET mode == OperatingMode_from_civ_bytes(f.sub_command[1], f.data[1]) IN
         IF mode.tag = "Err" THEN mode ELSE [tag |-> "Mode", mode |-> mode.v]

\* parse_level_response and parse_meter_response: the same checks, the
\* variant differs.
parse_two_byte_response(f, expected_sub, variant) ==
    IF f.sub_command = None THEN Err("InvalidFrame")
    ELSE IF f.sub_command[1] # expected_sub THEN Err("InvalidFrame")
    ELSE IF Len(f.data) # 2 THEN Err("InvalidFrame")
    ELSE LET value == decode_bcd_be(f.data) IN
         IF value.tag = "Err" THEN value
         ELSE [tag |-> variant, sub |-> f.sub_command[1], value |-> value.v]

parse_level_response(f, expected_sub) ==
    parse_two_byte_response(f, expected_sub, "Level")

parse_meter_response(f, expected_sub) ==
    parse_two_byte_response(f, expected_sub, "Meter")

\* parse_transceiver_id_response
parse_transceiver_id_response(f) ==
    IF f.sub_command = None THEN Err("InvalidFrame")
    ELSE [tag |-> "TransceiverId", id |-> f.sub_command[1]]

\* parse_various_response
parse_various_response(f, expected_sub) ==
    IF f.sub_command = None THEN Err("InvalidFrame")
    ELSE IF f.sub_command[1] # expected_sub THEN Err("InvalidFrame")
    ELSE IF Len(f.data) = 0 THEN Err("InvalidFrame")
    ELSE [tag |-> "Various", sub |-> f.sub_command[1], value |-> f.data[1]]

\* parse_duplex_response
parse_duplex_response(f) ==
    IF f.sub_command = None THEN Err("InvalidFrame")
    ELSE [tag |-> "Duplex", duplex |-> f.sub_command[1]]

\* parse_offset_response
parse_offset_response(f) ==
    IF Len(Payload(f)) # 5 THEN Err("InvalidFrame")
    ELSE LET freq == Frequency_from_civ_bytes(Payload(f)) IN
         IF freq.tag = "Err" THEN freq ELSE [tag |-> "Offset", hz |-> freq.v]

\* parse_tone_response
parse_tone_response(f, expected_sub) ==
    IF f.sub_command = None THEN Err("InvalidFrame")
    ELSE IF f.sub_command[1] # expected_sub THEN Err("InvalidFrame")
    ELSE IF Len(f.data) # 3 THEN Err("InvalidFrame")
    ELSE LET sub == f.sub_command[1]
             hi == decode_bcd_be(<<f.data[2]>>)
             lo == decode_bcd_be(<<f.data[3]>>)
         IN IF sub \notin {REPEATER_TONE, TSQL_TONE, DTCS} THEN Err("InvalidFrame")
            ELSE IF hi.tag = "Err" THEN hi
            ELSE IF lo.tag = "Err" THEN lo
            ELSE IF sub = DTCS
            THEN [tag |-> "DtcsCode", tx_pol |-> (f.data[1] \div 16) % 16,
                  rx_pol |-> f.data[1] % 16, code |-> hi.v * 100 + lo.v]
            ELSE [tag |-> "ToneFrequency", sub |-> sub, freq |-> hi.v * 100 + lo.v]

\* parse_response
parse_response(f, c) ==
    IF is_ok(f) THEN [tag |-> "Ok"]
    ELSE IF is_ng(f) THEN [tag |-> "Ng"]
    ELSE CASE c.tag = "ReadFrequency" -> parse_frequency_response(f)
           [] c.tag = "SetFrequency" ->
                IF f.command = SET_FREQ \/ f.command = READ_FREQ
                THEN parse_frequency_response(f)
                ELSE Err("InvalidFrame")
           [] c.tag = "ReadMode" -> parse_mode_response(f)
           [] c.tag \in {"SetMode", "SelectVfoA", "SelectVfoB", "SetLevel",
                         "PowerOn", "PowerOff", "SetVarious", "SetTone",
                         "SetDtcs"} -> [tag |-> "Ok"]
           [] c.tag = "ReadLevel" -> parse_level_response(f, c.sub)
           [] c.tag = "ReadMeter" -> parse_meter_response(f, c.sub)
           [] c.tag = "ReadTransceiverId" -> parse_transceiver_id_response(f)
           [] c.tag = "ReadVarious" -> parse_various_response(f, c.sub)
           [] c.tag = "ReadDuplex" -> parse_duplex_response(f)
           [] c.tag = "ReadOffset" -> parse_offset_response(f)
           [] c.tag = "ReadTone" -> parse_tone_response(f, c.sub)

\* ------------------------------------- Response model, crate civ-protocol
\* The crate's own response.rs has three more Command variants (SetDuplex,
\* SetOffset, ReadGpsPosition), a three-byte offset and the GPS position.
\* (b >> 4) & 0x0F
hi(b) == (b \div 16) % 16

\* b & 0x0F
lo(b) == b % 16

\* hi(b) * 10 + lo(b): at most 165, so it fits the u8 it is computed in
TwoDigits(b) == hi(b) * 10 + lo(b)

\* parse_offset_response of civ-protocol: 3 bytes of LE BCD, in units of 100 Hz
civ_parse_offset_response(f) ==
    IF Len(Payload(f)) # 3 THEN Err("InvalidFrame")
    ELSE LET raw == decode_bcd_le(Payload(f)) IN
         IF raw.tag = "Err" THEN raw
         ELSE LET freq == from_hz(Times100(raw.v)) IN
              IF freq.tag = "Err" THEN freq ELSE [tag |-> "Offset", hz |-> freq.v]

\* A decoder that takes 27 bytes or more
parse_gps_position_response_or_more(f) ==
    IF f.sub_command = None THEN Err("InvalidFrame")
    ELSE IF f.sub_command[1] # 0 THEN Err("InvalidFrame")
    ELSE IF Len(f.data) < GPS_DATA_LEN THEN Err("InvalidFrame")
    ELSE LET d == f.data IN
         [tag |-> "GpsPosition",
          lat_deg |-> TwoDigits(d[1]),
          lat_min |-> TwoDigits(d[2]),
          lat_min_frac |-> hi(d[3]) * 100 + lo(d[3]) * 10 + hi(d[4]),
          lat_north |-> lo(d[5]) = 1,
          lon_deg |-> lo(d[6]) * 100 + hi(d[7]) * 10 + lo(d[7]),
          lon_min |-> TwoDigits(d[8]),
          lon_min_frac |-> hi(d[9]) * 100 + lo(d[9]) * 10 + hi(d[10]),
          lon_east |-> lo(d[11]) = 1,
          alt_tenths |-> hi(d[12]) * 100000 + lo(d[12]) * 10000 + hi(d[13]) * 1000
                         + lo(d[13]) * 100 + hi(d[14]) * 10 + lo(d[14]),
          alt_negative |-> lo(d[15]) = 1,
          course |-> hi(d[16]) * 100 + lo(d[16]) * 10 + hi(d[17]),
          speed_tenths |-> hi(d[18]) * 100000 + lo(d[18]) * 10000 + hi(d[19]) * 1000
                           + lo(d[19]) * 100 + hi(d[20]) * 10 + lo(d[20]),
          utc_year |-> hi(d[21]) * 1000 + lo(d[21]) * 100 + hi(d[22]) * 10 + lo(d[22]),
          utc_month |-> TwoDigits(d[23]),
          utc_day |-> TwoDigits(d[24]),
          utc_hour |-> TwoDigits(d[25]),
          utc_minute |-> TwoDigits(d[26]),
          utc_second |-> TwoDigits(d[27])]

\* parse_gps_position_response
parse_gps_position_response(f) ==
    IF f.sub_command = None THEN Err("InvalidFrame")
    ELSE IF f.sub_command[1] # 0 THEN Err("InvalidFrame")
    ELSE IF Len(f.data) # GPS_DATA_LEN THEN Err("InvalidFrame")
    ELSE LET d == f.data IN
         [tag |-> "GpsPosition",
          lat_deg |-> TwoDigits(d[1]),
          lat_min |-> TwoDigits(d[2]),
          lat_min_frac |-> hi(d[3]) * 100 + lo(d[3]) * 10 + hi(d[4]),
          lat_north |-> lo(d[5]) = 1,
          lon_deg |-> lo(d[6]) * 100 + hi(d[7]) * 10 + lo(d[7]),
          lon_min |-> TwoDigits(d[8]),
          lon_min_frac |-> hi(d[9]) * 100 + lo(d[9]) * 10 + hi(d[10]),
          lon_east |-> lo(d[11]) = 1,
          alt_tenths |-> hi(d[12]) * 100000 + lo(d[12]) * 10000 + hi(d[13]) * 1000
                         + lo(d[13]) * 100 + hi(d[14]) * 10 + lo(d[14]),
          alt_negative |-> lo(d[15]) = 1,
          course |-> hi(d[16]) * 100 + lo(d[16]) * 10 + hi(d[17]),
          speed_tenths |-> hi(d[18]) * 100000 + lo(d[18]) * 10000 + hi(d[19]) * 1000
                           + lo(d[19]) * 100 + hi(d[20]) * 10 + lo(d[20]),
          utc_year |-> hi(d[21]) * 1000 + lo(d[21]) * 100 + hi(d[22]) * 10 + lo(d[22]),
          utc_month |-> TwoDigits(d[23]),
          utc_day |-> TwoDigits(d[24]),
          utc_hour |-> TwoDigits(d[25]),
          utc_minute |-> TwoDigits(d[26]),
          utc_second |-> TwoDigits(d[27])]

\* The arm of parse_response's match for the command, once the frame is
\* known to be neither OK nor NG.
civ_match_command(f, c) ==
    CASE c.tag = "ReadFrequency" -> parse_frequency_response(f)
      [] c.tag = "SetFrequency" ->
           IF f.command = SET_FREQ \/ f.command = READ_FREQ
           THEN parse_frequency_response(f)
           ELSE Err("InvalidFrame")
      [] c.tag = "ReadMode" -> parse_mode_response(f)
      [] c.tag \in {"SetMode", "SelectVfoA", "SelectVfoB", "SetLevel",
                    "PowerOn", "PowerOff", "SetDuplex", "SetOffset",
                    "SetVarious", "SetTone", "SetDtcs"} -> [tag |-> "Ok"]
      [] c.tag = "ReadLevel" -> parse_level_response(f, c.sub)
      [] c.tag = "ReadMeter" -> parse_meter_response(f, c.sub)
      [] c.tag = "ReadTransceiverId" -> parse_transceiver_id_response(f)
      [] c.tag = "ReadVarious" -> parse_various_response(f, c.sub)
      [] c.tag = "ReadDuplex" -> parse_duplex_response(f)
      [] c.tag = "ReadOffset" -> civ_parse_offset_response(f)
      [] c.tag = "ReadTone" -> parse_tone_response(f, c.sub)
      [] c.tag = "ReadGpsPosition" -> parse_gps_position_response(f)

\* parse_response of civ-protocol, with the match evaluated before the
\* OK/NG test
civ_parse_response_match_first(f, c) ==
    IF c.tag \in {"ReadFrequency", "ReadMode", "ReadLevel", "ReadMeter",
                  "ReadTransceiverId", "ReadVarious", "ReadDuplex",
                  "ReadOffset", "ReadTone", "ReadGpsPosition", "SetFrequency"}
    THEN civ_match_command(f, c)
    ELSE IF is_ok(f) THEN [tag |-> "Ok"]
    ELSE IF is_ng(f) THEN [tag |-> "Ng"]
    ELSE civ_match_command(f, c)

\* parse_response of civ-protocol
civ_parse_response(f, c) ==
    IF is_ok(f) THEN [tag |-> "Ok"]
    ELSE IF is_ng(f) THEN [tag |-> "Ng"]
    ELSE civ_match_command(f, c)

\* ------------------------------------------------------------------- state
VARIABLES
    buf,            \* Radio.buf
    tx_bytes,       \* Radio.tx_bytes
    rx_bytes,       \* Radio.rx_bytes
    port_timeout,   \* the port's read timeout, as last set by set_timeout
    pc,             \* where send_command stands: idle, flush, fill, parse
    command,        \* the command of the current (or last) send_command
    now,            \* Instant::now(), ticks since the call began
    deadline,       \* read_response's deadline
    result,         \* what the last send_command returned
    response_frame, \* the frame the last read_response returned, if any
    line,           \* bytes the device has sent and the port has not yet read
    written,        \* bytes the port accepted from the current call's write_all
    flushed,        \* the port was flushed after the last write
    delivered,      \* bytes handed out by successful port reads
    has_read,       \* the current call has read from the port
    tx_at_call,     \* tx_bytes when the current call began
    script,         \* what the device sent while the current call was running
    clean_start,    \* buf and line were empty when the current call began
    stale,          \* how many bytes at the front of buf were in buf when the
                    \* current call began
    prev,           \* what the call before the current one returned
    calls,          \* how many send_command calls have begun
    items,          \* how many items the device has emitted
    io_faults,      \* how many transport operations have failed
    wpc,            \* where radio_loop stands
    cmd_rx,         \* the command queue: RadioCommands sent and not yet taken
    cmd_open,       \* the frontend still holds the command sender
    events,         \* the events the worker has sent, in order
    event_open,     \* the frontend still holds the event receiver
    active_vfo,     \* radio_loop's active_vfo
    cached_vfo_a,   \* radio_loop's cached_vfo_a
    cached_vfo_b,   \* radio_loop's cached_vfo_b
    poll_idx,       \* which read of poll_state is next (1..12)
    polled,         \* the results of the reads of this poll_state call
    iters,          \* how many iterations of the loop have been completed
    enqueued,       \* every RadioCommand the frontend has sent, in order
    taken,          \* every RadioCommand the worker has taken, in order
    wire,           \* what each of the worker's calls wrote to the port, in order
    reacted,        \* the device has reacted to the command in flight
    dev_faults,     \* how many times the device has misbehaved
    dev_vfo         \* the band the device is on

svars == <<buf, tx_bytes, rx_bytes, port_timeout, pc, command, now, deadline,
           result, response_frame, line, written, flushed, delivered,
           has_read, tx_at_call, script, clean_start, stale, prev, calls,
           items, io_faults>>

wvars == <<wpc, cmd_rx, cmd_open, events, event_open, active_vfo,
           cached_vfo_a, cached_vfo_b, poll_idx, polled, iters, enqueued,
           taken, wire, reacted, dev_faults, dev_vfo>>

\* The state of auto_detect_baud (civ-protocol/src/transport/serial.rs).  Time
\* is counted in ticks of 50 ms from the start of the current rate's window.
VARIABLES
    detect_pc,       \* where auto_detect_baud stands: open, write, poll, read, done
    baud_idx,        \* the position in BAUD_RATES of the rate being tried
    transport,       \* the rate of the transport that is open, if any
    accumulated,     \* auto_detect_baud's accumulated
    detect_now,      \* Instant::now(), ticks since the window began
    read_until,      \* when the port read in progress times out
    detect_result,   \* what auto_detect_baud returned
    port_rx,         \* bytes that wait at the port at the current rate
    heard,           \* what the device sent at the current rate, item by item
    answered,        \* the rates at which a frame for the controller was read
    chunks           \* how many items the device has sent during detection

dvars == <<detect_pc, baud_idx, transport, accumulated, detect_now, read_until,
           detect_result, port_rx, heard, answered, chunks>>

VARIABLE
    config           \* Radio.config: radio_addr and controller_addr

\* A use of the codec on its own (civ-protocol/src/protocol.rs and
\* response.rs): a frame is built and encoded, or bytes are given, the bytes
\* are parsed, and a frame is decoded as the answer to a command.
VARIABLES
    c_pc,            \* where the use stands: off, new, answer, bytes, parsed, responded
    c_frame,         \* the Frame that was constructed, if any
    c_garbage,       \* the bytes put in front of the encoded frame
    c_buf,           \* the buffer handed to Frame::parse
    c_parsed,        \* what Frame::parse returned
    c_command,       \* the Command handed to parse_response
    c_response       \* what parse_response returned

cvars == <<c_pc, c_frame, c_garbage, c_buf, c_parsed, c_command, c_response>>

VARIABLE
    op_result        \* what the client's typed operation (read_mode, ...) returned

\* A use of the numeric types on their own (bcd.rs, frequency.rs, mode.rs and
\* the tone encoding of command.rs and response.rs): an input is given and
\* one of the conversions is applied to it.
VARIABLES
    n_pc,            \* where the use stands: off, in, out
    n_in,            \* the input
    n_out            \* what the conversion gave

nvars == <<n_pc, n_in, n_out>>

\* The FrameBuffer of the web binding (civ-web) and the serial stream the
\* page feeds it.
VARIABLES
    fb_pc,           \* whether a FrameBuffer is in use: off, on
    fb_buf,          \* FrameBuffer.buf
    fb_results,      \* what each call of feed returned, in order
    fb_rest,         \* the bytes of the stream the page has not fed yet
    fb_stream        \* ghost: the runs of bytes the stream is made of

fvars == <<fb_pc, fb_buf, fb_results, fb_rest, fb_stream>>

\* What neither send_command nor the worker change: the configuration, the
\* state of bit-rate discovery, the codec on its own and the result of the
\* client's typed operation.
outside == <<dvars, config, cvars, op_result, nvars, fvars>>

vars == <<svars, wvars, outside>>

radio == <<buf, tx_bytes, rx_bytes>>
ghost == <<tx_at_call, clean_start, stale, prev, calls>>

NoResult == [tag |-> "NoResult"]

\* One more fault fits the bound.
FaultAllowed == io_faults + dev_faults < MaxFaults

\* The fields poll_state reads, in the order it reads them.
PollFields == <<"frequency", "mode", "rf_power", "tone_mode", "duplex",
                "offset", "tx_tone_freq", "rx_tone_freq", "dtcs", "s_meter",
                "af_level", "squelch">>

\* No field of this cycle read yet.
NothingPolled == [f \in {PollFields[i] : i \in 1..Len(PollFields)} |-> None]

\* VfoState::default()
VfoState_default ==
    [frequency |-> None, mode |-> None, rf_power |-> None, tone_mode |-> None,
     tx_tone_freq |-> None, rx_tone_freq |-> None, dtcs_code |-> None,
     dtcs_tx_pol |-> None, dtcs_rx_pol |-> None, duplex |-> None,
     offset |-> None]

\* auto_detect_baud about to try the first rate.
DetectInit ==
    /\ detect_pc = "open"
    /\ baud_idx = 1
    /\ transport = None
    /\ accumulated = <<>>
    /\ detect_now = 0
    /\ read_until = 0
    /\ detect_result = NoResult
    /\ port_rx = <<>>
    /\ heard = <<>>
    /\ answered = {}
    /\ chunks = 0

\* RadioConfig::default(): the addresses.
RadioConfig_default ==
    [radio_addr |-> ADDR_ID52, controller_addr |-> ADDR_CONTROLLER]

\* The configurations a Radio is created with: the default, and one with
\* other addresses (0xA4 and 0xE1).
Configs == {RadioConfig_default, [radio_addr |-> 164, controller_addr |-> 225]}

\* Radio::new(port, cfg), radio_loop about to start, auto_detect_baud about
\* to start.
Radio_new(cfg) ==
    /\ config = cfg
    /\ buf = <<>>
    /\ tx_bytes = 0
    /\ rx_bytes = 0
    /\ port_timeout = 0
    /\ pc = "idle"
    /\ command = Cmd("ReadMode")
    /\ now = 0
    /\ deadline = 0
    /\ result = NoResult
    /\ response_frame = None
    /\ line = <<>>
    /\ written = <<>>
    /\ flushed = TRUE
    /\ delivered = 0
    /\ has_read = FALSE
    /\ tx_at_call = 0
    /\ script = <<>>
    /\ clean_start = TRUE
    /\ stale = 0
    /\ prev = NoResult
    /\ calls = 0
    /\ items = 0
    /\ io_faults = 0
    /\ wpc = "start"
    /\ cmd_rx = <<>>
    /\ cmd_open = TRUE
    /\ events = <<>>
    /\ event_open = TRUE
    /\ active_vfo = "A"
    /\ cached_vfo_a = VfoState_default
    /\ cached_vfo_b = VfoState_default
    /\ poll_idx = 1
    /\ polled = NothingPolled
    /\ iters = 0
    /\ enqueued = <<>>
    /\ taken = <<>>
    /\ wire = <<>>
    /\ reacted = FALSE
    /\ dev_faults = 0
    /\ dev_vfo = "A"
    /\ op_result = NoResult
    /\ DetectInit

\* The codec is not used on its own.
CodecOff ==
    /\ c_pc = "off"
    /\ c_frame = None
    /\ c_garbage = <<>>
    /\ c_buf = <<>>
    /\ c_parsed = NoResult
    /\ c_command = Cmd("ReadMode")
    /\ c_response = NoResult

\* The numeric types are not used on their own.
NumOff ==
    /\ n_pc = "off"
    /\ n_in = NoResult
    /\ n_out = NoResult

\* No FrameBuffer is in use.
FeedOff ==
    /\ fb_pc = "off"
    /\ fb_buf = <<>>
    /\ fb_results = <<>>
    /\ fb_rest = <<>>
    /\ fb_stream = <<>>

\* A Radio with the default configuration.
Init == Radio_new(RadioConfig_default) /\ CodecOff /\ NumOff /\ FeedOff

\* A Radio with any of the configurations.
ConfigInit == (\E cfg \in Configs : Radio_new(cfg)) /\ CodecOff /\ NumOff /\ FeedOff

\* ---------------------------------------------------------------- session
\* self.config.controller_addr
controller_addr == config.controller_addr

\* deadline.saturating_duration_since(Instant::now())
Remaining(d, t) == IF d > t THEN d - t ELSE 0

\* remaining.min(Duration::from_millis(100))
ReadTimeout(remaining) == Min(remaining, READ_SLICE)

\* self.buf.drain(..consumed)
Drained(b, consumed) == SubSeq(b, consumed + 1, Len(b))

\* A classification that tests the command byte before the destination.
ClassifyCommandFirst(f, expected_cmd) ==
    IF is_ok(f) \/ is_ng(f) \/ f.command = expected_cmd THEN "reply"
    ELSE IF f.dst # controller_addr THEN "echo"
    ELSE "unsolicited"

\* The classification of a decoded frame in read_response.
Classify(f, expected_cmd) ==
    IF f.dst # controller_addr THEN "echo"
    ELSE IF is_ok(f) \/ is_ng(f) \/ f.command = expected_cmd THEN "reply"
    ELSE "unsolicited"

\* A counter of reads instead of bytes.
CountRxReads(rx, n) == rx + 1

\* self.rx_bytes += n as u64
CountRx(rx, n) == rx + n

\* A counter of writes instead of bytes.
CountTxWrites(tx, bytes) == tx + 1

\* self.tx_bytes += bytes.len() as u64
CountTx(tx, bytes) == tx + Len(bytes)

\* send_command, up to and including write_all.  A write_all that fails has
\* put a proper prefix of the bytes on the port: any prefix, or with coarse
\* only the empty one or all but the last byte.
SendCommand(c, coarse) ==
    /\ pc = "idle"
    /\ calls' = calls + 1
    /\ command' = c
    /\ prev' = result
    /\ now' = 0
    /\ deadline' = 0
    /\ has_read' = FALSE
    /\ script' = <<>>
    /\ tx_at_call' = tx_bytes
    /\ clean_start' = (buf = <<>> /\ line = <<>>)
    /\ stale' = Len(buf)
    /\ response_frame' = None
    /\ LET frame == to_frame(c) IN
       IF frame.tag = "Err"
       THEN /\ result' = frame
            /\ pc' = "idle"
            /\ UNCHANGED <<written, flushed, io_faults>>
       ELSE LET bytes == to_bytes(frame.v) IN
            \/ /\ written' = bytes
               /\ flushed' = FALSE
               /\ pc' = "flush"
               /\ result' = NoResult
               /\ UNCHANGED io_faults
            \/ /\ FaultAllowed
               /\ \E k \in (IF coarse THEN {0, Len(bytes) - 1}
                                 ELSE 0..(Len(bytes) - 1)) :
                     written' = SubSeq(bytes, 1, k)
               /\ flushed' = FALSE
               /\ pc' = "idle"
               /\ result' = Err("Io")
               /\ io_faults' = io_faults + 1
    /\ UNCHANGED <<buf, tx_bytes, rx_bytes, port_timeout, line, delivered, items>>

\* send_command: flush, count the bytes written, enter read_response.
Flush ==
    /\ pc = "flush"
    /\ \/ /\ flushed' = TRUE
          /\ tx_bytes' = CountTx(tx_bytes, to_bytes(to_frame(command).v))
          /\ deadline' = now + Timeout
          /\ pc' = "fill"
          /\ UNCHANGED <<result, io_faults>>
       \/ /\ FaultAllowed
          /\ io_faults' = io_faults + 1
          /\ result' = Err("Io")
          /\ pc' = "idle"
          /\ UNCHANGED <<flushed, tx_bytes, deadline>>
    /\ UNCHANGED <<buf, rx_bytes, port_timeout, command, now, response_frame,
                   line, written, delivered, has_read, script, items>>
    /\ UNCHANGED ghost
    /\ UNCHANGED wvars
    /\ UNCHANGED outside

\* fill_buf: one bounded read of the port into buf.  Sizes is the set of
\* byte counts the read may return when bytes are waiting.
FillBufN(Sizes) ==
    /\ pc = "fill"
    /\ LET remaining == Remaining(deadline, now) IN
       IF remaining = 0
       THEN /\ result' = Err("Timeout")
            /\ pc' = "idle"
            /\ UNCHANGED <<buf, rx_bytes, port_timeout, now, line, delivered,
                           has_read, io_faults>>
       ELSE /\ port_timeout' = ReadTimeout(remaining)
            /\ has_read' = TRUE
            /\ \/ \E n \in Sizes :
                     /\ buf' = buf \o SubSeq(line, 1, n)
                     /\ line' = SubSeq(line, n + 1, Len(line))
                     /\ rx_bytes' = CountRx(rx_bytes, n)
                     /\ delivered' = delivered + n
                     /\ pc' = "parse"
                     /\ UNCHANGED <<now, result, io_faults>>
               \/ /\ line = <<>>
                  /\ now' = now + port_timeout'
                  /\ pc' = "parse"
                  /\ UNCHANGED <<buf, line, rx_bytes, delivered, result, io_faults>>
               \/ /\ FaultAllowed
                  /\ io_faults' = io_faults + 1
                  /\ result' = Err("Io")
                  /\ pc' = "idle"
                  /\ UNCHANGED <<buf, line, rx_bytes, delivered, now>>
    /\ UNCHANGED <<tx_bytes, command, deadline, response_frame, written,
                   flushed, script, items>>
    /\ UNCHANGED ghost
    /\ UNCHANGED wvars
    /\ UNCHANGED outside

\* Of the bytes that were in buf when the call began, those that are left
\* after n bytes were drained from its front.
StaleAfter(n_stale, n) == IF n >= n_stale THEN 0 ELSE n_stale - n

\* The end of one turn of read_response's loop: the deadline test.
DeadlineTest ==
    IF now >= deadline
    THEN result' = Err("Timeout") /\ pc' = "idle"
    ELSE result' = result /\ pc' = "fill"

\* read_response: decode one frame from buf, classify it, test the deadline.
ParseStep ==
    /\ pc = "parse"
    /\ LET r == Frame_parse(buf) IN
       CASE r.tag = "Err" ->
              /\ result' = Err("InvalidFrame")
              /\ pc' = "idle"
              /\ UNCHANGED <<buf, response_frame>>
         [] r.tag = "None" ->
              /\ DeadlineTest
              /\ UNCHANGED <<buf, response_frame>>
         [] r.tag = "Some" ->
              /\ buf' = Drained(buf, r.consumed)
              /\ LET k == Classify(r.frame, command_byte(command)) IN
                 CASE k = "echo" ->
                        /\ pc' = "fill"
                        /\ UNCHANGED <<result, response_frame>>
                   [] k = "reply" ->
                        /\ response_frame' = Some(r.frame)
                        /\ result' = parse_response(r.frame, command)
                        /\ pc' = "idle"
                   [] k = "unsolicited" ->
                        /\ DeadlineTest
                        /\ UNCHANGED response_frame
    /\ stale' = StaleAfter(stale, Len(buf) - Len(buf'))
    /\ UNCHANGED <<tx_bytes, rx_bytes, port_timeout, command, now, deadline,
                   line, written, flushed, delivered, has_read, script, items,
                   io_faults>>
    /\ UNCHANGED <<tx_at_call, clean_start, prev, calls>>
    /\ UNCHANGED wvars
    /\ UNCHANGED outside

\* ----------------------------------------------- typed operations of Radio
\* The value a Response carries, as the typed operations hand it out.
ValueOf(r) ==
    CASE r.tag \in {"Frequency", "Offset"} -> r.hz
      [] r.tag = "Mode" -> r.mode
      [] r.tag \in {"Level", "Meter", "Various"} -> r.value
      [] r.tag = "Duplex" -> r.duplex
      [] r.tag = "ToneFrequency" -> r.freq
      [] r.tag = "DtcsCode" -> <<r.tx_pol, r.rx_pol, r.code>>
      [] OTHER -> <<>>

\* The match with Ng taken for any other unexpected variant
ExpectNgAsOther(r, want) ==
    IF r.tag = "Err" THEN r
    ELSE IF r.tag = want THEN Val(ValueOf(r))
    ELSE Err("InvalidFrame")

\* The match every read_*, set_* and select_* operation applies to what
\* send_command returned: an error is passed on, the wanted variant gives the
\* value, Ng gives CivError::Ng, any other variant gives InvalidFrame.
Expect(r, want) ==
    IF r.tag = "Err" THEN r
    ELSE IF r.tag = want THEN Val(ValueOf(r))
    ELSE IF r.tag = "Ng" THEN Err("Ng")
    ELSE Err("InvalidFrame")

\* The Response variant the typed operation that sends c returns the value
\* of: the read_* operations want the variant of their read, the set_* and
\* select_* operations want Ok.
WantOf(c) ==
    CASE c.tag = "ReadFrequency" -> "Frequency"
      [] c.tag = "ReadMode" -> "Mode"
      [] c.tag = "ReadMeter" -> "Meter"
      [] c.tag = "ReadLevel" -> "Level"
      [] c.tag = "ReadVarious" -> "Various"
      [] c.tag = "ReadDuplex" -> "Duplex"
      [] c.tag = "ReadOffset" -> "Offset"
      [] c.tag = "ReadTone" -> IF c.sub = DTCS THEN "DtcsCode" ELSE "ToneFrequency"
      [] c.tag \in {"SetFrequency", "SetMode", "SetLevel", "SelectVfoA",
                    "SelectVfoB", "SetVarious", "SetTone", "SetDtcs"} -> "Ok"

\* ------------------------------------------- the session driven by a client
\* The client calls a typed operation of Radio (read_mode, select_vfo_a),
\* which calls send_command; the operation called before has returned.
ClientCall ==
    /\ calls < MaxCalls
    /\ calls > 0 => op_result # NoResult
    /\ \E c \in Commands : SendCommand(c, FALSE)
    /\ op_result' = NoResult
    /\ UNCHANGED wvars
    /\ UNCHANGED <<dvars, config, cvars, nvars, fvars>>

\* The typed operation matches what send_command returned and returns.
OpReturn ==
    /\ pc = "idle"
    /\ calls > 0
    /\ op_result = NoResult
    /\ op_result' = Expect(result, WantOf(command))
    /\ UNCHANGED <<svars, wvars, dvars, config, cvars, nvars, fvars>>

\* A port read returns between 1 and tmp.len() of the bytes that wait.
FillBuf == FillBufN(1..Min(Len(line), TMP_LEN))

\* The clock advances while read_response runs.  Time that passes between a
\* read and the deadline test that follows it leads to the same states as
\* time that passes after that test, before the next fill_buf reads the
\* clock, so a tick is taken only in front of fill_buf.
Tick ==
    /\ pc = "fill"
    /\ now < deadline
    /\ now' = now + 1
    /\ UNCHANGED <<buf, tx_bytes, rx_bytes, port_timeout, pc, command, deadline,
                   result, response_frame, line, written, flushed, delivered,
                   has_read, script, items, io_faults>>
    /\ UNCHANGED ghost
    /\ UNCHANGED wvars
    /\ UNCHANGED outside

\* A frame the radio sends to the controller: the radio has the address the
\* session is configured for and answers the controller at its address.
RadioFrame(cmd_byte, payload) ==
    [dst |-> config.controller_addr, src |-> config.radio_addr, command |-> cmd_byte,
     sub_command |-> SplitPayload(cmd_byte, payload).sub_command,
     data |-> SplitPayload(cmd_byte, payload).data]

OkFrame == RadioFrame(OK, <<>>)
NgFrame == RadioFrame(NG, <<>>)
ModeFrame == RadioFrame(READ_MODE, <<MODE_FM, FILTER_WIDE>>)
\* A transceive notification of a mode change: command byte 0x01, which no
\* command of this model expects.
TransceiveFrame == RadioFrame(1, <<MODE_AM, FILTER_WIDE>>)
\* A frame for the controller that carries the command byte of the VFO
\* selection, 0x07, with sub-command VFO A.
DeviceFrames ==
    {OkFrame, NgFrame, ModeFrame, TransceiveFrame, RadioFrame(VFO_MODE, <<VFO_A>>)}

\* A preamble run closed by a terminator fewer than 6 bytes later.
Malformed == <<PREAMBLE, PREAMBLE, EOM>>

\* A noise byte that is neither preamble nor terminator.
Noise == <<0>>

\* What can appear on the line: a frame from the radio, the echo of the
\* command in flight, a malformed run, a noise byte.
DeviceItems ==
    {to_bytes(f) : f \in DeviceFrames}
      \cup (IF pc = "fill" THEN {to_bytes(to_frame(command).v)} ELSE {})
      \cup {Malformed, Noise}

DeviceSend ==
    /\ pc \in {"idle", "fill"}
    /\ items < MaxItems
    /\ \E it \in DeviceItems :
          /\ line' = line \o it
          /\ script' = IF pc = "fill" THEN Append(script, it) ELSE script
    /\ items' = items + 1
    /\ UNCHANGED <<buf, tx_bytes, rx_bytes, port_timeout, pc, command, now,
                   deadline, result, response_frame, written, flushed,
                   delivered, has_read, io_faults>>
    /\ UNCHANGED ghost
    /\ UNCHANGED wvars
    /\ UNCHANGED outside

Next ==
    \/ ClientCall
    \/ OpReturn
    \/ Flush
    \/ FillBuf
    \/ ParseStep
    \/ Tick
    \/ DeviceSend

Spec == Init /\ [][Next]_vars

\* The same session, created with any of the configurations.
ConfigSpec == ConfigInit /\ [][Next]_vars

TypeOK ==
    /\ pc \in {"idle", "flush", "fill", "parse"}
    /\ now \in 0..Timeout
    /\ items \in 0..MaxItems

\* ----------------------------------------------- the worker's reads
\* Result::ok
ok(r) == IF r.tag = "Val" THEN Some(r.v) ELSE None

\* The reads of poll_state, in order: the command each typed operation
\* sends and the variant it wants.
poll_state ==
    <<[cmd |-> Cmd("ReadFrequency"), want |-> "Frequency"],
      [cmd |-> Cmd("ReadMode"), want |-> "Mode"],
      [cmd |-> [tag |-> "ReadLevel", sub |-> RF_POWER], want |-> "Level"],
      [cmd |-> [tag |-> "ReadVarious", sub |-> TONE_SQUELCH_FUNC], want |-> "Various"],
      [cmd |-> Cmd("ReadDuplex"), want |-> "Duplex"],
      [cmd |-> Cmd("ReadOffset"), want |-> "Offset"],
      [cmd |-> [tag |-> "ReadTone", sub |-> REPEATER_TONE], want |-> "ToneFrequency"],
      [cmd |-> [tag |-> "ReadTone", sub |-> TSQL_TONE], want |-> "ToneFrequency"],
      [cmd |-> [tag |-> "ReadTone", sub |-> DTCS], want |-> "DtcsCode"],
      [cmd |-> [tag |-> "ReadMeter", sub |-> S_METER], want |-> "Meter"],
      [cmd |-> [tag |-> "ReadLevel", sub |-> AF_LEVEL], want |-> "Level"],
      [cmd |-> [tag |-> "ReadLevel", sub |-> SQUELCH], want |-> "Level"]>>

\* dtcs.map(|t| t.i)
MapDtcs(o, i) == IF o = None THEN None ELSE Some(o[1][i])

\* A VfoState that leaves the frequency out
VfoStateWithoutFrequency(p) ==
    [frequency |-> None, mode |-> p["mode"],
     rf_power |-> p["rf_power"], tone_mode |-> p["tone_mode"],
     tx_tone_freq |-> p["tx_tone_freq"], rx_tone_freq |-> p["rx_tone_freq"],
     dtcs_code |-> MapDtcs(p["dtcs"], 3), dtcs_tx_pol |-> MapDtcs(p["dtcs"], 1),
     dtcs_rx_pol |-> MapDtcs(p["dtcs"], 2), duplex |-> p["duplex"],
     offset |-> p["offset"]]

\* The VfoState poll_state builds from its reads.
VfoStateOf(p) ==
    [frequency |-> p["frequency"], mode |-> p["mode"],
     rf_power |-> p["rf_power"], tone_mode |-> p["tone_mode"],
     tx_tone_freq |-> p["tx_tone_freq"], rx_tone_freq |-> p["rx_tone_freq"],
     dtcs_code |-> MapDtcs(p["dtcs"], 3), dtcs_tx_pol |-> MapDtcs(p["dtcs"], 1),
     dtcs_rx_pol |-> MapDtcs(p["dtcs"], 2), duplex |-> p["duplex"],
     offset |-> p["offset"]]

\* execute_command: the Command the typed operation for a RadioCommand sends.
execute_command(rc) ==
    CASE rc.tag = "SetFrequency" -> [tag |-> "SetFrequency", freq |-> rc.freq]
      [] rc.tag = "SetMode" -> [tag |-> "SetMode", mode |-> rc.mode]
      [] rc.tag = "SetAfLevel" ->
           [tag |-> "SetLevel", sub |-> AF_LEVEL, value |-> rc.level]
      [] rc.tag = "SetSquelch" ->
           [tag |-> "SetLevel", sub |-> SQUELCH, value |-> rc.level]
      [] rc.tag = "SelectVfo" ->
           IF rc.vfo = "A" THEN Cmd("SelectVfoA") ELSE Cmd("SelectVfoB")
      [] rc.tag = "SetToneMode" ->
           [tag |-> "SetVarious", sub |-> TONE_SQUELCH_FUNC, value |-> rc.mode]
      [] rc.tag = "SetTxTone" ->
           [tag |-> "SetTone", sub |-> REPEATER_TONE, freq |-> rc.freq]
      [] rc.tag = "SetRxTone" ->
           [tag |-> "SetTone", sub |-> TSQL_TONE, freq |-> rc.freq]
      [] rc.tag = "SetDtcsCode" ->
           [tag |-> "SetDtcs", tx_pol |-> rc.tx_pol, rx_pol |-> rc.rx_pol,
            code |-> rc.code]

\* ------------------------------------------------------------------ worker
\* A send that queues every event twice.
SendTwice(evs, e) == IF event_open THEN Append(Append(evs, e), e) ELSE evs

\* event_tx.send: the event is queued unless the receiver was dropped.
Send(evs, e) == IF event_open THEN Append(evs, e) ELSE evs

\* The receive that takes the newest queued command instead of the oldest.
try_recv_last(q) ==
    IF q # <<>> THEN [tag |-> "Ok", cmd |-> q[Len(q)], rest |-> SubSeq(q, 1, Len(q) - 1)]
    ELSE IF cmd_open THEN [tag |-> "Empty"]
    ELSE [tag |-> "Disconnected"]

\* cmd_rx.try_recv()
try_recv(q) ==
    IF q # <<>> THEN [tag |-> "Ok", cmd |-> Head(q), rest |-> Tail(q)]
    ELSE IF cmd_open THEN [tag |-> "Empty"]
    ELSE [tag |-> "Disconnected"]

\* A Quit handler that goes on to poll instead of returning.
quit_falls_through == "poll"

\* Where radio_loop goes after the Quit arm: it returns.
quit_arm == "returned"

\* The worker enters send_command; the port sees what it writes.
Call(c) ==
    /\ SendCommand(c, TRUE)
    /\ wire' = Append(wire, [cmd |-> c, bytes |-> written'])
    /\ reacted' = FALSE

\* radio_loop before the loop: the Connected event.
WStart ==
    /\ wpc = "start"
    /\ events' = Send(events, [tag |-> "Connected"])
    /\ wpc' = "recv"
    /\ UNCHANGED svars
    /\ UNCHANGED <<cmd_rx, cmd_open, event_open, active_vfo, cached_vfo_a,
                   cached_vfo_b, poll_idx, polled, iters, enqueued, taken,
                   wire, reacted, dev_faults, dev_vfo>>
    /\ UNCHANGED outside

\* The head of the loop: the match on cmd_rx.try_recv().
WRecv ==
    /\ wpc = "recv"
    /\ LET m == try_recv(cmd_rx) IN
       CASE m.tag = "Ok" /\ m.cmd.tag = "Quit" ->
              /\ cmd_rx' = m.rest
              /\ taken' = Append(taken, m.cmd)
              /\ events' = Send(events, [tag |-> "Disconnected"])
              /\ wpc' = quit_arm
              /\ UNCHANGED svars
              /\ UNCHANGED <<active_vfo, wire, reacted>>
         [] m.tag = "Ok" /\ m.cmd.tag = "SelectVfo" ->
              /\ cmd_rx' = m.rest
              /\ taken' = Append(taken, m.cmd)
              /\ active_vfo' = m.cmd.vfo
              /\ Call(execute_command(m.cmd))
              /\ wpc' = "exec"
              /\ UNCHANGED events
         [] m.tag = "Ok" /\ m.cmd.tag \notin {"Quit", "SelectVfo"} ->
              /\ cmd_rx' = m.rest
              /\ taken' = Append(taken, m.cmd)
              /\ Call(execute_command(m.cmd))
              /\ wpc' = "exec"
              /\ UNCHANGED <<events, active_vfo>>
         [] m.tag = "Empty" ->
              /\ wpc' = "poll"
              /\ UNCHANGED svars
              /\ UNCHANGED <<cmd_rx, taken, events, active_vfo, wire, reacted>>
         [] m.tag = "Disconnected" ->
              /\ wpc' = "returned"
              /\ UNCHANGED svars
              /\ UNCHANGED <<cmd_rx, taken, events, active_vfo, wire, reacted>>
    /\ UNCHANGED <<cmd_open, event_open, cached_vfo_a, cached_vfo_b, poll_idx,
                   polled, iters, enqueued, dev_faults, dev_vfo>>
    /\ UNCHANGED outside

\* execute_command has returned: an error becomes an Error event.
WExecuted ==
    /\ wpc = "exec"
    /\ pc = "idle"
    /\ LET r == Expect(result, "Ok") IN
       events' = IF r.tag = "Err" THEN Send(events, [tag |-> "Error", err |-> r.err])
                 ELSE events
    /\ wpc' = "poll"
    /\ UNCHANGED svars
    /\ UNCHANGED <<cmd_rx, cmd_open, event_open, active_vfo, cached_vfo_a,
                   cached_vfo_b, poll_idx, polled, iters, enqueued, taken,
                   wire, reacted, dev_faults, dev_vfo>>
    /\ UNCHANGED outside

\* poll_state: the next typed read begins.
WPollCall ==
    /\ wpc = "poll"
    /\ Call(poll_state[poll_idx].cmd)
    /\ wpc' = "polling"
    /\ UNCHANGED <<cmd_rx, cmd_open, events, event_open, active_vfo,
                   cached_vfo_a, cached_vfo_b, poll_idx, polled, iters,
                   enqueued, taken, dev_faults, dev_vfo>>
    /\ UNCHANGED outside

\* poll_state: a typed read has returned; .ok() is kept for its field.
WPollReturn ==
    /\ wpc = "polling"
    /\ pc = "idle"
    /\ polled' = [polled EXCEPT ![PollFields[poll_idx]] =
                      ok(Expect(result, poll_state[poll_idx].want))]
    /\ IF poll_idx = Len(poll_state)
       THEN poll_idx' = 1 /\ wpc' = "emit"
       ELSE poll_idx' = poll_idx + 1 /\ wpc' = "poll"
    /\ UNCHANGED svars
    /\ UNCHANGED <<cmd_rx, cmd_open, events, event_open, active_vfo,
                   cached_vfo_a, cached_vfo_b, iters, enqueued, taken, wire,
                   reacted, dev_faults, dev_vfo>>
    /\ UNCHANGED outside

\* The rest of the loop body: the active VFO's cache is replaced, the
\* snapshot is sent, and the worker returns when the send fails.  The two
\* bit-rate fields of the snapshot are left out.
WEmit ==
    /\ wpc = "emit"
    /\ cached_vfo_a' = IF active_vfo = "A" THEN VfoStateOf(polled) ELSE cached_vfo_a
    /\ cached_vfo_b' = IF active_vfo = "B" THEN VfoStateOf(polled) ELSE cached_vfo_b
    /\ events' = Send(events, [tag |-> "StateUpdate",
                               vfo_a |-> cached_vfo_a', vfo_b |-> cached_vfo_b',
                               s_meter |-> polled["s_meter"],
                               af_level |-> polled["af_level"],
                               squelch |-> polled["squelch"]])
    /\ wpc' = IF event_open THEN "sleep" ELSE "returned"
    /\ polled' = NothingPolled
    /\ UNCHANGED svars
    /\ UNCHANGED <<cmd_rx, cmd_open, event_open, active_vfo, poll_idx, iters,
                   enqueued, taken, wire, reacted, dev_faults, dev_vfo>>
    /\ UNCHANGED outside

\* thread::sleep(200 ms), then the next iteration.
WSleep ==
    /\ wpc = "sleep"
    /\ iters + 1 < MaxIters
    /\ iters' = iters + 1
    /\ wpc' = "recv"
    /\ UNCHANGED svars
    /\ UNCHANGED <<cmd_rx, cmd_open, events, event_open, active_vfo,
                   cached_vfo_a, cached_vfo_b, poll_idx, polled, enqueued,
                   taken, wire, reacted, dev_faults, dev_vfo>>
    /\ UNCHANGED outside

\* -------------------------------------------------- the worker's environment
\* The worker looks at the command queue only at the head of the loop and at
\* the event channel only when it sends, so a step of the frontend taken
\* elsewhere leads to the same states as the same step taken at the next such
\* place: the frontend moves only there.
\* The RadioCommands the frontend sends in this model.
RadioCommands ==
    {[tag |-> "SelectVfo", vfo |-> "B"], [tag |-> "SetMode", mode |-> "Am"],
     [tag |-> "Quit"]}

\* cmd_tx.send from the frontend.
Enqueue ==
    /\ cmd_open
    /\ wpc = "recv"
    /\ Len(enqueued) < MaxEnqueue
    /\ \E rc \in RadioCommands :
          /\ cmd_rx' = Append(cmd_rx, rc)
          /\ enqueued' = Append(enqueued, rc)
    /\ UNCHANGED svars
    /\ UNCHANGED <<wpc, cmd_open, events, event_open, active_vfo,
                   cached_vfo_a, cached_vfo_b, poll_idx, polled, iters, taken,
                   wire, reacted, dev_faults, dev_vfo>>
    /\ UNCHANGED outside

\* The frontend drops the command sender.
CloseCommands ==
    /\ cmd_open
    /\ wpc = "recv"
    /\ cmd_open' = FALSE
    /\ UNCHANGED svars
    /\ UNCHANGED <<wpc, cmd_rx, events, event_open, active_vfo, cached_vfo_a,
                   cached_vfo_b, poll_idx, polled, iters, enqueued, taken,
                   wire, reacted, dev_faults, dev_vfo>>
    /\ UNCHANGED outside

\* The frontend drops the event receiver.
CloseEvents ==
    /\ event_open
    /\ wpc \in {"start", "recv", "emit"}
    /\ event_open' = FALSE
    /\ UNCHANGED svars
    /\ UNCHANGED <<wpc, cmd_rx, cmd_open, events, active_vfo, cached_vfo_a,
                   cached_vfo_b, poll_idx, polled, iters, enqueued, taken,
                   wire, reacted, dev_faults, dev_vfo>>
    /\ UNCHANGED outside

\* The frame a healthy device answers a command with.
ReplyTo(c) ==
    CASE c.tag = "ReadFrequency" ->
           RadioFrame(READ_FREQ, IF dev_vfo = "A" THEN <<0, 0, 0, 69, 1>>
                                 ELSE <<0, 0, 0, 51, 4>>)
      [] c.tag = "ReadMode" -> ModeFrame
      [] c.tag = "ReadLevel" -> RadioFrame(LEVEL, <<c.sub, 1, 40>>)
      [] c.tag = "ReadMeter" -> RadioFrame(METER, <<c.sub, 1, 32>>)
      [] c.tag = "ReadVarious" -> RadioFrame(VARIOUS, <<c.sub, 0>>)
      [] c.tag = "ReadDuplex" -> RadioFrame(READ_DUPLEX, <<16>>)
      [] c.tag = "ReadOffset" -> RadioFrame(READ_OFFSET, <<0, 0, 96, 0, 0>>)
      [] c.tag = "ReadTone" ->
           RadioFrame(TONE, IF c.sub = DTCS THEN <<c.sub, 0, 0, 35>>
                            ELSE <<c.sub, 0, 20, 19>>)
      [] OTHER -> OkFrame

\* The band the device is on after it has accepted a command.
BandAfter(c) ==
    CASE c.tag = "SelectVfoA" -> "A"
      [] c.tag = "SelectVfoB" -> "B"
      [] OTHER -> dev_vfo

\* The device reacts to the command the worker has in flight: it echoes the
\* command and answers it; or, a bounded number of times, it sends a
\* notification in front of the answer, rejects the command, stays silent, or
\* its answer reaches the port as a malformed run.
DeviceReact ==
    /\ wpc \in {"exec", "polling"}
    /\ pc = "fill"
    /\ ~reacted
    /\ reacted' = TRUE
    /\ LET echo == to_bytes(to_frame(command).v) IN
       \/ /\ line' = line \o echo \o to_bytes(ReplyTo(command))
          /\ dev_vfo' = BandAfter(command)
          /\ UNCHANGED dev_faults
       \/ /\ FaultAllowed
          /\ dev_faults' = dev_faults + 1
          /\ \/ /\ line' = line \o echo \o to_bytes(TransceiveFrame)
                              \o to_bytes(ReplyTo(command))
                /\ dev_vfo' = BandAfter(command)
             \/ /\ line' = line \o echo \o to_bytes(NgFrame)
                /\ UNCHANGED dev_vfo
             \/ UNCHANGED <<line, dev_vfo>>
             \/ /\ line' = line \o echo \o Malformed
                /\ dev_vfo' = BandAfter(command)
    /\ UNCHANGED <<buf, tx_bytes, rx_bytes, port_timeout, pc, command, now,
                   deadline, result, response_frame, written, flushed,
                   delivered, has_read, script, items, io_faults>>
    /\ UNCHANGED ghost
    /\ UNCHANGED <<wpc, cmd_rx, cmd_open, events, event_open, active_vfo,
                   cached_vfo_a, cached_vfo_b, poll_idx, polled, iters,
                   enqueued, taken, wire>>
    /\ UNCHANGED outside

\* A port read in the worker: it happens after the device has reacted and
\* returns all the bytes that wait, up to tmp.len().
WFillBuf ==
    /\ reacted
    /\ FillBufN({Min(Len(line), TMP_LEN)} \ {0})

WorkerNext ==
    \/ WStart
    \/ WRecv
    \/ WExecuted
    \/ WPollCall
    \/ WPollReturn
    \/ WEmit
    \/ WSleep
    \/ Flush
    \/ WFillBuf
    \/ ParseStep
    \/ Enqueue
    \/ CloseCommands
    \/ CloseEvents
    \/ DeviceReact

WorkerSpec == Init /\ [][WorkerNext]_vars

\* ---------------------------------------------- the worker that is let run
\* The device of the liveness check misbehaves only while it answers a
\* command from the queue; its answers to the reads of poll_state are sound.
LiveDeviceReact ==
    /\ DeviceReact
    /\ (dev_faults' # dev_faults => wpc = "exec")

\* The port of the liveness check: a read fails only during a command from
\* the queue.
LiveFillBuf ==
    /\ WFillBuf
    /\ (io_faults' # io_faults => wpc = "exec")

\* The steps of the worker thread itself, of the serial port and of the
\* device it talks to, but for the decoding of buf.  The thread is scheduled,
\* thread::sleep returns, and a port read returns with bytes or at its
\* timeout; the frontend promises nothing.
WorkerRuns ==
    \/ WStart
    \/ WRecv
    \/ WExecuted
    \/ WPollCall
    \/ WPollReturn
    \/ WEmit
    \/ WSleep
    \/ Flush
    \/ LiveFillBuf
    \/ LiveDeviceReact

\* The worker under a scheduler that lets it run.  ParseStep is enabled
\* exactly when pc = "parse" and it is the only step taken there, so the last
\* conjunct is WF_vars(ParseStep): the thread also runs while it decodes.
WorkerLiveSpec ==
    /\ Init
    /\ [][WorkerRuns \/ ParseStep \/ Enqueue \/ CloseCommands \/ CloseEvents]_vars
    /\ WF_vars(WorkerRuns)
    /\ []<>(pc # "parse")

\* ------------------------------------------------------- bit-rate discovery
\* const BAUD_RATES
BAUD_RATES == <<19200, 9600, 4800>>
\* Instant::now() + Duration::from_millis(1000), in ticks.
DETECT_WINDOW == 20
\* open_port: .timeout(Duration::from_millis(500)), in ticks.
PORT_TIMEOUT == 10
\* std::thread::sleep(Duration::from_millis(50)), in ticks.
DETECT_SLEEP == 1
\* let mut buf = [0u8; 64]
DETECT_BUF_LEN == 64

\* Command::ReadTransceiverId.to_frame()?.to_bytes()
cmd_bytes == to_bytes(to_frame(Cmd("ReadTransceiverId")).v)

\* find_response_frame: the first frame of the buffer that is addressed to
\* the controller; frames with another destination are passed over.
RECURSIVE find_response_frame(_)
find_response_frame(b) ==
    IF b = <<>> THEN [tag |-> "None"]
    ELSE LET start == FindPreamble(b) IN
         IF start = 0 THEN [tag |-> "None"]
         ELSE LET r == Frame_parse(SubSeq(b, start, Len(b))) IN
              CASE r.tag = "Err" -> r
                [] r.tag = "None" -> r
                [] r.tag = "Some" ->
                     IF r.frame.dst = ADDR_CONTROLLER THEN r
                     ELSE find_response_frame(
                              SubSeq(b, start + r.consumed, Len(b)))

\* `continue` in the loop over BAUD_RATES, and the end of the loop: the next
\* rate is tried, or the result is Timeout when there is none.
NextRate ==
    /\ transport' = None
    /\ IF baud_idx < Len(BAUD_RATES)
       THEN /\ baud_idx' = baud_idx + 1
            /\ detect_pc' = "open"
            /\ UNCHANGED detect_result
       ELSE /\ detect_pc' = "done"
            /\ detect_result' = Err("Timeout")
            /\ UNCHANGED baud_idx

\* open_port at the rate being tried, then port.clear; a failed open goes on
\* to the next rate.
DetectOpen ==
    /\ detect_pc = "open"
    /\ \/ /\ transport' = Some(BAUD_RATES[baud_idx])
          /\ detect_pc' = "write"
          /\ UNCHANGED <<baud_idx, detect_result>>
       \/ NextRate
    /\ port_rx' = <<>>
    /\ heard' = <<>>
    /\ UNCHANGED <<accumulated, detect_now, read_until, answered, chunks>>
    /\ UNCHANGED <<svars, wvars, config, cvars, op_result, nvars, fvars>>

\* write_all of the command; a failed write goes on to the next rate.  Then
\* accumulated is empty and the window begins.
DetectWrite ==
    /\ detect_pc = "write"
    /\ \/ /\ accumulated' = <<>>
          /\ detect_now' = 0
          /\ detect_pc' = "poll"
          /\ UNCHANGED <<baud_idx, transport, detect_result>>
       \/ /\ NextRate
          /\ UNCHANGED <<accumulated, detect_now>>
    /\ UNCHANGED <<read_until, port_rx, heard, answered, chunks>>
    /\ UNCHANGED <<svars, wvars, config, cvars, op_result, nvars, fvars>>

\* while Instant::now() < deadline: a port read begins, or the window is
\* over and the next rate is tried.
DetectLoopTest ==
    /\ detect_pc = "poll"
    /\ IF detect_now < DETECT_WINDOW
       THEN /\ detect_pc' = "read"
            /\ read_until' = detect_now + PORT_TIMEOUT
            /\ UNCHANGED <<baud_idx, transport, detect_result>>
       ELSE /\ NextRate
            /\ UNCHANGED read_until
    /\ UNCHANGED <<accumulated, detect_now, port_rx, heard, answered, chunks>>
    /\ UNCHANGED <<svars, wvars, config, cvars, op_result, nvars, fvars>>

\* The frames the radio can send during discovery: its answer to
\* ReadTransceiverId, and NG.
DetectFrames == {RadioFrame(READ_ID, <<0, ADDR_ID52>>), NgFrame}

\* An item that is a frame addressed to the controller, as the radio wrote it.
IsControllerFrame(it) ==
    \E f \in DetectFrames : it = to_bytes(f)

\* The bytes of a sequence of items, in order.
RECURSIVE Concat(_)
Concat(its) == IF its = <<>> THEN <<>> ELSE Head(its) \o Concat(Tail(its))

\* Transport::read and the match on its result: bytes are appended to
\* accumulated and searched; a timeout or an error sleeps.
DetectRead ==
    /\ detect_pc = "read"
    /\ \/ \E n \in 1..Min(Len(port_rx), DETECT_BUF_LEN) :
             /\ accumulated' = accumulated \o SubSeq(port_rx, 1, n)
             /\ port_rx' = SubSeq(port_rx, n + 1, Len(port_rx))
             /\ answered' = IF \E k \in 1..Len(heard) :
                                  /\ IsControllerFrame(heard[k])
                                  /\ Len(Concat(SubSeq(heard, 1, k))) <= Len(accumulated')
                            THEN answered \cup {baud_idx} ELSE answered
             /\ IF find_response_frame(accumulated').tag = "Some"
                THEN /\ detect_pc' = "done"
                     /\ detect_result' = Val(BAUD_RATES[baud_idx])
                ELSE /\ detect_pc' = "poll"
                     /\ UNCHANGED detect_result
             /\ UNCHANGED detect_now
       \/ /\ port_rx = <<>>
          /\ detect_now' = read_until + DETECT_SLEEP
          /\ detect_pc' = "poll"
          /\ UNCHANGED <<accumulated, port_rx, answered, detect_result>>
       \/ /\ detect_now' = detect_now + DETECT_SLEEP
          /\ detect_pc' = "poll"
          /\ UNCHANGED <<accumulated, port_rx, answered, detect_result>>
    /\ UNCHANGED <<baud_idx, transport, read_until, heard, chunks>>
    /\ UNCHANGED <<svars, wvars, config, cvars, op_result, nvars, fvars>>

\* What the port can receive during a window: the echo of the command, a
\* frame from the radio, a malformed run, a noise byte, a stray preamble byte.
DetectItems ==
    {cmd_bytes} \cup {to_bytes(f) : f \in DetectFrames}
      \cup {Malformed, Noise, <<PREAMBLE>>}

\* The line delivers an item while a port read is under way: at once, or
\* when the read is about to time out.
DetectDeviceSend ==
    /\ detect_pc = "read"
    /\ chunks < MaxChunks
    /\ chunks' = chunks + 1
    /\ \E it \in DetectItems :
          /\ port_rx' = port_rx \o it
          /\ heard' = Append(heard, it)
    /\ \E t \in {detect_now, read_until} : detect_now' = t
    /\ UNCHANGED <<detect_pc, baud_idx, transport, accumulated, read_until,
                   detect_result, answered>>
    /\ UNCHANGED <<svars, wvars, config, cvars, op_result, nvars, fvars>>

DetectNext ==
    \/ DetectOpen
    \/ DetectWrite
    \/ DetectLoopTest
    \/ DetectRead
    \/ DetectDeviceSend

DetectSpec == Init /\ [][DetectNext]_vars

\* ------------------------------------------------- the codec on its own
\* All sequences over S of length at most n.
BoundedSeq(S, n) == UNION {[1..k -> S] : k \in 0..n}

\* The bytes a frame's addresses, command, sub-command and data are drawn
\* from: ordinary values and the two sentinels.
PayloadBytes == {0, PREAMBLE, EOM}

\* The frames that are constructed (Frame is a public struct: any
\* combination of fields can be built).
CodecFrames ==
    {[dst |-> d, src |-> s, command |-> c, sub_command |-> sc, data |-> dt] :
        d \in {ADDR_CONTROLLER, PREAMBLE, EOM},
        s \in {ADDR_ID52, PREAMBLE, EOM},
        c \in {READ_FREQ, OK, NG, PREAMBLE, EOM},
        sc \in {None} \cup {Some(b) : b \in PayloadBytes},
        dt \in BoundedSeq(PayloadBytes, MaxData)}

\* Commands of every variant.
CodecCommands ==
    {Cmd(t) : t \in {"ReadFrequency", "ReadMode", "SelectVfoA", "SelectVfoB",
                     "PowerOn", "PowerOff", "ReadTransceiverId", "ReadDuplex",
                     "ReadOffset", "ReadGpsPosition"}}
    \cup {[tag |-> "SetFrequency", freq |-> U64(1450000, 0)],
          [tag |-> "SetMode", mode |-> "Fm"],
          [tag |-> "ReadLevel", sub |-> AF_LEVEL],
          [tag |-> "SetLevel", sub |-> AF_LEVEL, value |-> 128],
          [tag |-> "ReadMeter", sub |-> S_METER],
          [tag |-> "ReadVarious", sub |-> TONE_SQUELCH_FUNC],
          [tag |-> "SetVarious", sub |-> TONE_SQUELCH_FUNC, value |-> 1],
          [tag |-> "ReadTone", sub |-> REPEATER_TONE],
          [tag |-> "ReadTone", sub |-> DTCS],
          [tag |-> "SetTone", sub |-> REPEATER_TONE, freq |-> 1413],
          [tag |-> "SetDtcs", tx_pol |-> 0, rx_pol |-> 0, code |-> 23],
          [tag |-> "SetDuplex", dir |-> 17],
          [tag |-> "SetOffset", hz |-> 600000]}

\* The frames handed to parse_response as answers: an answer's command
\* byte, no sub-command or one that some read command expects, and data that
\* is short (with valid and invalid BCD bytes) or about as long as a GPS
\* position.
AnswerSubs == {REPEATER_TONE, AF_LEVEL, S_METER, MODE_FM, TONE_SQUELCH_FUNC}
AnswerData ==
    BoundedSeq({1, 170}, MaxAnswerData)
    \cup {[i \in 1..n |-> 1] : n \in (GPS_DATA_LEN - 1)..(GPS_DATA_LEN + 1)}
AnswerFrames ==
    {[dst |-> ADDR_CONTROLLER, src |-> ADDR_ID52, command |-> c,
      sub_command |-> sc, data |-> dt] :
        c \in {READ_FREQ, LEVEL},
        sc \in {None} \cup {Some(b) : b \in AnswerSubs},
        dt \in AnswerData}

\* A frame has been constructed, a buffer is given as it is, or an answer
\* frame has been constructed.
CodecInit ==
    /\ Radio_new(RadioConfig_default)
    /\ NumOff
    /\ FeedOff
    /\ c_garbage = <<>>
    /\ c_parsed = NoResult
    /\ c_command = Cmd("ReadMode")
    /\ c_response = NoResult
    /\ \/ /\ c_pc = "new"
          /\ \E f \in CodecFrames : c_frame = Some(f)
          /\ c_buf = <<>>
       \/ /\ c_pc = "bytes"
          /\ c_frame = None
          /\ c_buf \in BoundedSeq(PayloadBytes, MaxRaw)
       \/ /\ c_pc = "answer"
          /\ \E f \in AnswerFrames : c_frame = Some(f)
          /\ c_buf = <<>>

\* garbage ++ frame.to_bytes(), with up to MaxGarbage bytes of garbage
Encode ==
    /\ c_pc = "new"
    /\ \E g \in BoundedSeq(PayloadBytes, MaxGarbage) :
         /\ c_garbage' = g
         /\ c_buf' = g \o to_bytes(c_frame[1])
    /\ c_pc' = "bytes"
    /\ UNCHANGED <<c_frame, c_parsed, c_command, c_response>>
    /\ UNCHANGED <<svars, wvars, dvars, config, op_result, nvars, fvars>>

\* Frame::parse(&buf)
Parse ==
    /\ c_pc = "bytes"
    /\ c_parsed' = Frame_parse(c_buf)
    /\ c_pc' = "parsed"
    /\ UNCHANGED <<c_frame, c_garbage, c_buf, c_command, c_response>>
    /\ UNCHANGED <<svars, wvars, dvars, config, op_result, nvars, fvars>>

\* parse_response(&frame, &command) on the constructed frame
Respond ==
    /\ c_pc \in {"new", "answer"}
    /\ \E c \in CodecCommands :
         /\ c_command' = c
         /\ c_response' = civ_parse_response(c_frame[1], c)
    /\ c_pc' = "responded"
    /\ UNCHANGED <<c_frame, c_garbage, c_buf, c_parsed>>
    /\ UNCHANGED <<svars, wvars, dvars, config, op_result, nvars, fvars>>

CodecNext == Encode \/ Parse \/ Respond

CodecSpec == CodecInit /\ [][CodecNext]_vars

\* ---------------------------------------- the numeric types on their own
\* Every byte.
Bytes == 0..255

\* The decimal pairs frequencies are built from; a frequency is five pairs.
FreqPairs == {0, 1, 45, 99}

\* The frequencies handed to Frequency::from_hz: every combination of five
\* pairs (0 and 9_999_999_999 among them) and 10_000_000_000.
HzSamples ==
    {U64(((p5 * 100 + p4) * 100 + p3) * 100 + p2, p1) :
        p1 \in FreqPairs, p2 \in FreqPairs, p3 \in FreqPairs,
        p4 \in FreqPairs, p5 \in FreqPairs}
    \cup {U64(MAX_HZ_DIV_100 + 1, 0)}

\* The five modes.
OperatingModes == {"Fm", "FmN", "Am", "AmN", "Dv"}

\* The inputs: a frequency in Hz, a byte, a (mode, filter) pair, a mode, a
\* tone sub-command with a u16 of tenths of Hz, or a value with the number
\* of BCD bytes to encode it in.
\* current_tone_type(tone_mode, is_tx)
current_tone_type(tone_mode, is_tx) ==
    IF is_tx
    THEN CASE tone_mode \in {1, 9} -> "Tpl"
           [] tone_mode \in 6..8 -> "Dpl"
           [] OTHER -> "Csq"
    ELSE CASE tone_mode \in {2, 4, 8, 9} -> "Tpl"
           [] tone_mode \in {3, 5, 7} -> "Dpl"
           [] OTHER -> "Csq"

\* The tone mode computed from the edited side's own previous type
compute_tone_mode_own_side(current_mode, is_tx, new_type) ==
    LET other_type == current_tone_type(current_mode, is_tx)
        tx == IF is_tx THEN new_type ELSE other_type
        rx == IF is_tx THEN other_type ELSE new_type
    IN CASE tx = "Csq" /\ rx = "Csq" -> 0
         [] tx = "Tpl" /\ rx = "Csq" -> 1
         [] tx = "Csq" /\ rx = "Tpl" -> 2
         [] tx = "Csq" /\ rx = "Dpl" -> 3
         [] tx = "Dpl" /\ rx = "Csq" -> 6
         [] tx = "Dpl" /\ rx = "Dpl" -> 7
         [] tx = "Dpl" /\ rx = "Tpl" -> 8
         [] tx = "Tpl" /\ rx = "Tpl" -> 9
         [] tx = "Tpl" /\ rx = "Dpl" -> 9

\* compute_tone_mode(current_mode, is_tx, new_type)
compute_tone_mode(current_mode, is_tx, new_type) ==
    LET other_type == current_tone_type(current_mode, ~is_tx)
        tx == IF is_tx THEN new_type ELSE other_type
        rx == IF is_tx THEN other_type ELSE new_type
    IN CASE tx = "Csq" /\ rx = "Csq" -> 0
         [] tx = "Tpl" /\ rx = "Csq" -> 1
         [] tx = "Csq" /\ rx = "Tpl" -> 2
         [] tx = "Csq" /\ rx = "Dpl" -> 3
         [] tx = "Dpl" /\ rx = "Csq" -> 6
         [] tx = "Dpl" /\ rx = "Dpl" -> 7
         [] tx = "Dpl" /\ rx = "Tpl" -> 8
         [] tx = "Tpl" /\ rx = "Tpl" -> 9
         [] tx = "Tpl" /\ rx = "Dpl" -> 9

NumInput(x) ==
    \/ \E v \in HzSamples : x = [kind |-> "hz", hz |-> v]
    \/ \E b \in Bytes : x = [kind |-> "byte", b |-> b]
    \/ \E m \in Bytes, f \in Bytes : x = [kind |-> "pair", mode |-> m, filter |-> f]
    \/ \E m \in OperatingModes : x = [kind |-> "mode", mode |-> m]
    \/ \E s \in {REPEATER_TONE, TSQL_TONE}, f \in 0..U16_MAX :
            x = [kind |-> "tone", sub |-> s, freq |-> f]
    \/ \E v \in 0..MaxBcdValue, len \in 0..MaxBcdLen :
            x = [kind |-> "bcd", value |-> v, len |-> len]
    \/ \E c \in Bytes, tx \in BOOLEAN, t \in {"Csq", "Tpl", "Dpl"} :
            x = [kind |-> "tone_edit", code |-> c, is_tx |-> tx, new_type |-> t]

NumInit ==
    /\ Radio_new(RadioConfig_default)
    /\ CodecOff
    /\ FeedOff
    /\ n_pc = "in"
    /\ NumInput(n_in)
    /\ n_out = NoResult

\* What a step of the numeric types leaves alone.
NumFrame ==
    /\ n_pc' = "out"
    /\ UNCHANGED n_in
    /\ UNCHANGED <<svars, wvars, dvars, config, cvars, op_result, fvars>>

\* Frequency::from_hz(hz), .to_civ_bytes(), Frequency::from_civ_bytes(bytes)
FrequencyRoundTrip ==
    /\ n_pc = "in"
    /\ n_in.kind = "hz"
    /\ LET made == from_hz(n_in.hz)
           bytes == IF made.tag = "Val" THEN Frequency_to_civ_bytes(made.v) ELSE NoResult
           back == IF bytes.tag = "Val" THEN Frequency_from_civ_bytes(bytes.v) ELSE NoResult
       IN n_out' = [op |-> "frequency", made |-> made, bytes |-> bytes, back |-> back]
    /\ NumFrame

\* Command::SetFrequency(Frequency::from_hz(hz)?).to_frame()?.to_bytes()
SetFrequencyBytes ==
    /\ n_pc = "in"
    /\ n_in.kind = "hz"
    /\ LET made == from_hz(n_in.hz)
           frame == IF made.tag = "Val"
                    THEN to_frame([tag |-> "SetFrequency", freq |-> made.v])
                    ELSE NoResult
           bytes == IF frame.tag = "Val" THEN to_bytes(frame.v) ELSE NoResult
       IN n_out' = [op |-> "set_frequency", made |-> made, bytes |-> bytes]
    /\ NumFrame

\* decode_bcd_byte(b), then encode_bcd_byte of what it gave
BcdByteDecode ==
    /\ n_pc = "in"
    /\ n_in.kind = "byte"
    /\ LET dec == decode_bcd_byte(n_in.b)
           enc == IF dec.tag = "Val" THEN encode_bcd_byte(dec.v) ELSE NoResult
       IN n_out' = [op |-> "decode", dec |-> dec, enc |-> enc]
    /\ NumFrame

\* encode_bcd_byte(v)
BcdByteEncode ==
    /\ n_pc = "in"
    /\ n_in.kind = "byte"
    /\ n_out' = [op |-> "encode", enc |-> encode_bcd_byte(n_in.b)]
    /\ NumFrame

\* OperatingMode::from_civ_bytes(mode, filter), .to_civ_bytes(), and
\* from_civ_bytes again
ModeDecode ==
    /\ n_pc = "in"
    /\ n_in.kind = "pair"
    /\ LET dec == OperatingMode_from_civ_bytes(n_in.mode, n_in.filter)
           bytes == IF dec.tag = "Val" THEN OperatingMode_to_civ_bytes(dec.v) ELSE NoResult
           back == IF dec.tag = "Val"
                   THEN OperatingMode_from_civ_bytes(bytes[1], bytes[2])
                   ELSE NoResult
       IN n_out' = [op |-> "mode_pair", dec |-> dec, bytes |-> bytes, back |-> back]
    /\ NumFrame

\* mode.to_civ_bytes(), then OperatingMode::from_civ_bytes
ModeEncode ==
    /\ n_pc = "in"
    /\ n_in.kind = "mode"
    /\ LET bytes == OperatingMode_to_civ_bytes(n_in.mode)
       IN n_out' = [op |-> "mode", bytes |-> bytes,
                    back |-> OperatingMode_from_civ_bytes(bytes[1], bytes[2])]
    /\ NumFrame

\* Command::SetTone(sub, freq).to_frame(), and parse_response with
\* Command::ReadTone(sub) of the answer frame that carries the same
\* sub-command and data
ToneRoundTrip ==
    /\ n_pc = "in"
    /\ n_in.kind = "tone"
    /\ LET frame == to_frame([tag |-> "SetTone", sub |-> n_in.sub, freq |-> n_in.freq]).v
           answer == [dst |-> ADDR_CONTROLLER, src |-> ADDR_ID52,
                      command |-> frame.command,
                      sub_command |-> frame.sub_command, data |-> frame.data]
       IN n_out' = [op |-> "tone", data |-> frame.data,
                    back |-> civ_parse_response(answer, [tag |-> "ReadTone", sub |-> n_in.sub])]
    /\ NumFrame

\* encode_bcd_le(value, len), then decode_bcd_le of the bytes
BcdLeRoundTrip ==
    /\ n_pc = "in"
    /\ n_in.kind = "bcd"
    /\ LET enc == encode_bcd_le(U64(n_in.value \div 100, n_in.value % 100), n_in.len)
           dec == IF enc.tag = "Val" THEN decode_bcd_le(enc.v) ELSE NoResult
       IN n_out' = [op |-> "bcd_le", enc |-> enc, dec |-> dec]
    /\ NumFrame

\* encode_bcd_be(value, len), then decode_bcd_be of the bytes
BcdBeRoundTrip ==
    /\ n_pc = "in"
    /\ n_in.kind = "bcd"
    /\ LET enc == encode_bcd_be(n_in.value, n_in.len)
           dec == IF enc.tag = "Val" THEN decode_bcd_be(enc.v) ELSE NoResult
       IN n_out' = [op |-> "bcd_be", enc |-> enc, dec |-> dec]
    /\ NumFrame

\* The tone-type editor's confirm: compute_tone_mode of the current tone
\* mode, then current_tone_type of the new mode for both sides.
ToneTypeEdit ==
    /\ n_pc = "in"
    /\ n_in.kind = "tone_edit"
    /\ LET new_mode == compute_tone_mode(n_in.code, n_in.is_tx, n_in.new_type)
       IN n_out' = [op |-> "tone_edit", new_mode |-> new_mode,
                    tx |-> current_tone_type(new_mode, TRUE),
                    rx |-> current_tone_type(new_mode, FALSE)]
    /\ NumFrame

NumNext ==
    \/ FrequencyRoundTrip
    \/ SetFrequencyBytes
    \/ BcdByteDecode
    \/ BcdByteEncode
    \/ ModeDecode
    \/ ModeEncode
    \/ ToneRoundTrip
    \/ BcdLeRoundTrip
    \/ BcdBeRoundTrip
    \/ ToneTypeEdit

NumSpec == NumInit /\ [][NumNext]_vars

\* ------------------------------------------- the FrameBuffer of the web page
\* FrameBuffer::infer_response: the Response of a frame whose command is not
\* known, from the frame's command byte.
infer_response(frame) ==
    IF is_ok(frame) THEN [tag |-> "Ok"]
    ELSE IF is_ng(frame) THEN [tag |-> "Ng"]
    ELSE LET sub == IF frame.sub_command = None THEN 0 ELSE frame.sub_command[1]
             dummy_cmd ==
                 CASE frame.command \in {READ_FREQ, SET_FREQ} -> Cmd("ReadFrequency")
                   [] frame.command = READ_MODE -> Cmd("ReadMode")
                   [] frame.command = LEVEL -> [tag |-> "ReadLevel", sub |-> sub]
                   [] frame.command = METER -> [tag |-> "ReadMeter", sub |-> sub]
                   [] frame.command = READ_ID -> Cmd("ReadTransceiverId")
                   [] frame.command = VARIOUS -> [tag |-> "ReadVarious", sub |-> sub]
                   [] frame.command = READ_DUPLEX -> Cmd("ReadDuplex")
                   [] frame.command = READ_OFFSET -> Cmd("ReadOffset")
                   [] frame.command = TONE -> [tag |-> "ReadTone", sub |-> sub]
                   [] frame.command = READ_GPS -> Cmd("ReadGpsPosition")
                   [] OTHER -> Cmd("unknown")
         IN IF dummy_cmd = Cmd("unknown") THEN Err("unknown command byte")
            ELSE civ_parse_response(frame, dummy_cmd)

\* The match of frame_to_js over the Response: the object is its "type" and
\* the Response its other properties are computed from.
JsObject(resp) ==
    [type |-> CASE resp.tag = "Ok" -> "ok"
                [] resp.tag = "Ng" -> "ng"
                [] resp.tag = "Frequency" -> "frequency"
                [] resp.tag = "Mode" -> "mode"
                [] resp.tag = "Level" -> "level"
                [] resp.tag = "Meter" -> "meter"
                [] resp.tag = "TransceiverId" -> "transceiver_id"
                [] resp.tag = "Various" -> "various"
                [] resp.tag = "Duplex" -> "duplex"
                [] resp.tag = "Offset" -> "offset"
                [] resp.tag = "ToneFrequency" -> "tone_frequency"
                [] resp.tag = "DtcsCode" -> "dtcs"
                [] resp.tag = "GpsPosition" -> "gps",
     of |-> resp]

\* FrameBuffer::frame_to_js: the error of infer_response, or the object
\* built from the Response.
frame_to_js(frame) ==
    LET resp == infer_response(frame) IN
    IF resp.tag = "Err" THEN resp ELSE Val(JsObject(resp))

\* The loop of FrameBuffer::feed over buf, with the responses collected so
\* far: what is left in buf and what feed returns.
RECURSIVE feed_loop(_, _)
feed_loop(b, responses) ==
    LET r == Frame_parse(b) IN
    CASE r.tag = "Some" ->
           LET start == FindPreamble(b)
               rest == SubSeq(b, start + r.consumed, Len(b))
               js == frame_to_js(r.frame)
           IN IF r.frame.src = ADDR_CONTROLLER THEN feed_loop(rest, responses)
              ELSE IF js.tag = "Err" THEN [buf |-> rest, result |-> js]
              ELSE feed_loop(rest, Append(responses, js.v))
      [] r.tag = "None" -> [buf |-> b, result |-> Val(responses)]
      [] r.tag = "Err" ->
           \* buf.windows(2).skip(1).position(..): the first preamble pair
           \* that does not begin at the first byte, 1-based; 0 for none.
           LET S == {i \in 2..(Len(b) - 1) : b[i] = PREAMBLE /\ b[i + 1] = PREAMBLE}
               pos == IF S = {} THEN 0 ELSE SetMin(S)
           IN
           [buf |-> IF pos # 0 THEN SubSeq(b, pos, Len(b)) ELSE <<>>,
            result |-> Val(responses)]

\* FrameBuffer::new, and the stream the page will feed.  The stream is made
\* of up to MaxFeedRuns runs of bytes: three frames from the radio (OK, a
\* mode reply, a notification whose command byte infer_response does not
\* know), the echo of a command, a malformed run and a byte of noise.
FeedInit ==
    /\ Radio_new(RadioConfig_default)
    /\ CodecOff
    /\ NumOff
    /\ fb_pc = "on"
    /\ fb_buf = <<>>
    /\ fb_results = <<>>
    /\ \E k \in 1..MaxFeedRuns :
          fb_stream \in [1..k -> {to_bytes(OkFrame), to_bytes(ModeFrame),
                                 to_bytes(TransceiveFrame),
                                 to_bytes(Frame_new(READ_MODE, None, <<>>)),
                                 Malformed, Noise}]
    /\ fb_rest = Concat(fb_stream)

\* feed(data): the page passes the next bytes it read from the port, or
\* none.
Feed ==
    /\ fb_pc = "on"
    /\ Len(fb_results) < MaxFeeds
    /\ \E n \in 0..Len(fb_rest) :
          LET r == feed_loop(fb_buf \o SubSeq(fb_rest, 1, n), <<>>) IN
          /\ fb_buf' = r.buf
          /\ fb_results' = Append(fb_results, r.result)
          /\ fb_rest' = SubSeq(fb_rest, n + 1, Len(fb_rest))
    /\ UNCHANGED <<fb_pc, fb_stream>>
    /\ UNCHANGED <<svars, wvars, dvars, config, cvars, op_result, nvars>>

FeedSpec == FeedInit /\ [][Feed]_vars

\* ------------------------------------------------------------------ claims
\* A send_command call has returned.
Returned == pc = "idle" /\ calls > 0
\* The bytes of the command of the current call.
CommandBytes == to_bytes(to_frame(command).v)
\* The echo of the command of the current call.
IsEcho(it) == it = CommandBytes
\* An item that is a frame from the radio which read_response must hand out.
IsReply(it) ==
    \E f \in DeviceFrames :
        /\ it = to_bytes(f)
        /\ (f.command = OK \/ f.command = NG \/ f.command = command_byte(command))
\* An item that is a frame from the radio which read_response must skip.
IsUnsolicited(it) ==
    \E f \in DeviceFrames :
        /\ it = to_bytes(f)
        /\ ~(f.command = OK \/ f.command = NG \/ f.command = command_byte(command))
\* The frame an item encodes.
FrameOf(it) == CHOOSE f \in DeviceFrames : it = to_bytes(f)
\* The device sent echo and unsolicited frames and then one reply, and the
\* call read all of it.
SkippableThenReply ==
    /\ Len(script) >= 1
    /\ IsReply(script[Len(script)])
    /\ \A i \in 1..(Len(script) - 1) : IsEcho(script[i]) \/ IsUnsolicited(script[i])
    /\ line = <<>>

\* C1: a frame that read_response returns is addressed to the controller and
\* carries OK, NG or the expected command byte; an echo (dst other than the
\* controller, whatever its command byte) and an unsolicited frame are never
\* returned.
C1_ReturnedFrameQualifies ==
    response_frame # None =>
        /\ response_frame[1].dst = controller_addr
        /\ response_frame[1].command \in {OK, NG, command_byte(command)}

\* C1 witness: the device sent the echo first, the call skipped it and
\* returned a later frame.
C1_Witness ==
    /\ Returned
    /\ Len(script) = 2
    /\ IsEcho(script[1])
    /\ response_frame # None
    /\ buf = <<>>

\* C2: with nothing left over from earlier, when the device sends N echo
\* frames and M unsolicited frames and then the reply, and the call reads all
\* of them, send_command returns the response decoded from that reply.
C2_SkipsThenReturnsReply ==
    (Returned /\ clean_start /\ SkippableThenReply /\ result # Err("Io")) =>
        /\ response_frame = Some(FrameOf(script[Len(script)]))
        /\ result = parse_response(FrameOf(script[Len(script)]), command)

\* C3: when read_response decodes a frame, it removes the garbage in front of
\* the preamble and the frame itself from the buffer.
C3_DrainRemovesGarbageAndFrame ==
    [][(pc = "parse" /\ Frame_parse(buf).tag = "Some") =>
          buf' = SubSeq(buf, FindPreamble(buf) + Frame_parse(buf).consumed, Len(buf))]_vars

\* C4: read_response does not end the call with InvalidFrame when the buffer
\* holds a malformed frame.
C4_MalformedDoesNotAbort ==
    ~(Returned /\ result = Err("InvalidFrame") /\ response_frame = None)

\* C5: after a call that ended in Timeout, the next call returns its own
\* reply when the device sends it and the call reads it: a call that returns
\* a frame returns the one the device sent during that call.
C5_NextCallGetsOwnReply ==
    (/\ Returned
     /\ prev = Err("Timeout")
     /\ Len(script) = 1
     /\ IsReply(script[1])
     /\ line = <<>>
     /\ response_frame # None) =>
        response_frame = Some(FrameOf(script[1]))

\* C6: read_response ends with a frame, Timeout or an I/O error, and no read
\* is given more than min(remaining, 100 ms), so no read ends past the
\* deadline.
C6_EndsWithFrameTimeoutOrIo ==
    /\ (Returned /\ flushed) =>
          (response_frame # None \/ result \in {Err("Timeout"), Err("Io")})
    /\ port_timeout <= READ_SLICE
    /\ (pc \in {"fill", "parse"} => now <= deadline)

\* C7: rx_bytes is the number of bytes that successful port reads have
\* returned since the Radio was created, and it never decreases.
C7_RxCountsEveryByteRead ==
    [](rx_bytes = delivered) /\ [][rx_bytes' >= rx_bytes]_vars

\* C7 witness: a call that ended in Timeout after reading bytes, following an
\* earlier call that read bytes too.
C7_Witness ==
    /\ Returned
    /\ calls = 2
    /\ result = Err("Timeout")
    /\ rx_bytes > Len(buf)
    /\ buf # <<>>

\* C8: reads happen only after the whole command was written and flushed, and
\* then tx_bytes has grown by the length of the encoded frame; when write or
\* flush fails the call returns the error with tx_bytes unchanged and without
\* a read.
C8_WriteFlushCountThenRead ==
    /\ (pc \in {"fill", "parse"} \/ has_read \/ (Returned /\ flushed)) =>
          /\ written = CommandBytes
          /\ flushed
          /\ tx_bytes = tx_at_call + Len(CommandBytes)
    /\ (pc = "flush" \/ (Returned /\ ~flushed)) =>
          /\ tx_bytes = tx_at_call
          /\ ~has_read
    /\ (Returned /\ ~flushed) => result = Err("Io")

\* C8 witness: the second call's flush failed after the first call had
\* counted its bytes.
C8_Witness ==
    /\ Returned
    /\ calls = 2
    /\ written = CommandBytes
    /\ ~flushed
    /\ tx_bytes > 0

\* ------------------------------------------------------ claims: the worker
\* What the worker's calls for queue commands wrote, in order.
IsQueueCommand(c) == c.tag \notin {poll_state[i].cmd.tag : i \in 1..Len(poll_state)}
CommandWrites == SelectSeq(wire, LAMBDA w : IsQueueCommand(w.cmd))
\* The RadioCommands of a sequence that are not Quit.
NotQuit(rc) == rc.tag # "Quit"
NonQuit(q) == SelectSeq(q, NotQuit)
IsPrefix(p, q) == Len(p) <= Len(q) /\ p = SubSeq(q, 1, Len(p))
\* The worker has taken Quit from the queue.
QuitTaken == \E i \in 1..Len(taken) : taken[i].tag = "Quit"

\* C9: the worker writes the queue's commands in the order they were
\* enqueued: the k-th command written is the k-th command enqueued (Quit
\* apart); and a write begins only when no send_command call is running,
\* the previous one having returned a reply, Timeout or an error.
C9_QueueOrderOneInFlight ==
    /\ [](LET cw == CommandWrites
              nq == NonQuit(enqueued)
          IN /\ Len(cw) <= Len(nq)
             /\ \A i \in 1..Len(cw) :
                   /\ cw[i].cmd = execute_command(nq[i])
                   /\ IsPrefix(cw[i].bytes, to_bytes(to_frame(cw[i].cmd).v)))
    /\ [][wire' # wire =>
            /\ pc = "idle"
            /\ (wire # <<>> => result # NoResult)]_vars

\* C9 witness: two different commands were enqueued and both were written
\* in full, each followed by the calls of a poll cycle.
C9_Witness ==
    /\ Len(enqueued) = 2
    /\ enqueued[1] # enqueued[2]
    /\ Len(CommandWrites) = 2
    /\ \A i \in 1..2 :
          CommandWrites[i].bytes = to_bytes(to_frame(CommandWrites[i].cmd).v)
    /\ wpc = "emit"
    /\ iters = 1

\* C10: once the worker has taken Quit from the queue it has returned; the
\* Disconnected event, sent unless the frontend dropped the event receiver,
\* is the last event and the only one of its kind; and from then on the
\* worker writes nothing to the port and sends no event.
C10_QuitEndsWorker ==
    /\ [](QuitTaken =>
            /\ wpc = "returned"
            /\ pc = "idle"
            /\ (event_open => events # <<>> /\ events[Len(events)].tag = "Disconnected"))
    /\ [](\A i \in 1..(Len(events) - 1) : events[i].tag # "Disconnected")
    /\ [][QuitTaken => (wire' = wire /\ events' = events /\ written' = written)]_vars

\* C10 witness: Quit was taken in the second iteration, after a complete
\* first iteration, and Disconnected is the last event.
C10_Witness ==
    /\ QuitTaken
    /\ iters = 1
    /\ Len(wire) >= Len(poll_state)
    /\ Len(events) >= 3
    /\ events[Len(events)].tag = "Disconnected"
    /\ events[Len(events) - 1].tag = "StateUpdate"

\* The StateUpdate events sent so far.
IsStateUpdate(e) == e.tag = "StateUpdate"
StateUpdates == Len(SelectSeq(events, IsStateUpdate))
\* What the worker's calls for poll_state wrote, in order.
IsPollWrite(w) == ~IsQueueCommand(w.cmd)
PollWrites == SelectSeq(wire, IsPollWrite)
\* The reads of the current iteration's poll cycle that have begun.
PollsBegun ==
    CASE wpc \in {"emit", "sleep"} -> Len(poll_state)
      [] wpc = "polling" -> poll_idx
      [] wpc = "poll" -> poll_idx - 1
      [] OTHER -> 0

\* C11: an iteration of the worker loop takes at most one command from the
\* queue, and only at its head; the check does not block, so with an empty
\* queue the worker goes straight to the poll cycle; the poll cycle makes its
\* reads once each, in order, before the snapshot; and the worker has sent
\* exactly one StateUpdate for every iteration it has completed.
C11_OneCommandOnePollOneUpdate ==
    /\ [](/\ Len(taken) <= iters + (IF wpc \in {"start", "recv"} THEN 0 ELSE 1)
          /\ StateUpdates = iters + (IF wpc = "sleep" THEN 1 ELSE 0)
          /\ (wpc # "returned" =>
                Len(PollWrites) = Len(poll_state) * iters + PollsBegun)
          /\ LET pw == PollWrites IN
             \A k \in 1..Len(pw) :
                pw[k].cmd = poll_state[((k - 1) % Len(poll_state)) + 1].cmd
          /\ (wpc = "recv" => ENABLED WRecv))
    /\ [][taken' # taken =>
            /\ Len(taken') = Len(taken) + 1
            /\ wpc = "recv"
            /\ wpc' # "recv"]_vars
    /\ [][(wpc = "recv" /\ wpc' # "recv" /\ cmd_rx = <<>> /\ cmd_open) =>
            (wpc' = "poll" /\ taken' = taken /\ wire' = wire)]_vars
    /\ [][StateUpdates' # StateUpdates =>
            /\ StateUpdates' = StateUpdates + 1
            /\ wpc = "emit"
            /\ Len(PollWrites) = Len(poll_state) * (iters + 1)]_vars

\* C11 witness: the first iteration found the queue empty and polled; the
\* second found two commands, took one and left the other; each iteration
\* ended with its StateUpdate.
C11_Witness ==
    /\ iters = 1
    /\ wpc = "sleep"
    /\ Len(taken) = 1
    /\ Len(cmd_rx) = 1
    /\ StateUpdates = 2
    /\ Len(PollWrites) = 2 * Len(poll_state)

\* The fields of the current poll cycle that are None.
NoneFields == {i \in 1..Len(PollFields) : polled[PollFields[i]] = None}

\* C12: a failed field read makes only its own field None: when the snapshot
\* is built, no more fields are None than exchanges have failed (a transport
\* operation failed, or the device rejected the command, stayed silent or
\* was received malformed).
C12_FailedReadOnlyItsField ==
    wpc = "emit" => Cardinality(NoneFields) <= io_faults + dev_faults

\* -------------------------------------------- claims: bit-rate discovery
\* C13: auto_detect_baud tries the rates in the order of BAUD_RATES; when it
\* returns a rate, that is the rate being tried, the transport is open at
\* it, a frame for the controller was received at it and at no rate tried
\* before it; when it returns Timeout, every rate was tried and none of them
\* received a frame for the controller.
C13_FirstAnsweringRateWins ==
    /\ [](detect_pc = "done" =>
            /\ detect_result.tag \in {"Val", "Err"}
            /\ (detect_result.tag = "Val" =>
                  /\ detect_result.v = BAUD_RATES[baud_idx]
                  /\ transport = Some(detect_result.v)
                  /\ baud_idx \in answered
                  /\ \A i \in 1..(baud_idx - 1) : i \notin answered)
            /\ (detect_result.tag = "Err" =>
                  /\ detect_result = Err("Timeout")
                  /\ baud_idx = Len(BAUD_RATES)
                  /\ answered = {}))
    /\ [][baud_idx' # baud_idx => baud_idx' = baud_idx + 1]_vars

\* C14: once a well-formed frame addressed to the controller has been read
\* at the rate being tried, that rate is selected, whatever was read before
\* the frame.
C14_FirstControllerFrameSelects ==
    baud_idx \in answered =>
        (detect_pc = "done" /\ detect_result = Val(BAUD_RATES[baud_idx]))

\* ------------------------------------------------ claims: configuration
\* C15: the frame send_command writes carries the configured addresses:
\* its destination is config.radio_addr and its source is
\* config.controller_addr, for every configuration.
C15_WrittenFramesUseConfig ==
    Len(written) >= 4 =>
        (written[3] = config.radio_addr /\ written[4] = config.controller_addr)

\* ------------------------------------------------------ claims: the codec
\* The bytes of a frame's fields.
FieldBytes(f) ==
    {f.dst, f.src, f.command}
    \cup {f.sub_command[i] : i \in 1..Len(f.sub_command)}
    \cup {f.data[i] : i \in 1..Len(f.data)}

\* A frame as Frame::parse produces them: no sub-command and no data with
\* OK or NG, and no data without a sub-command.
DecoderForm(f) ==
    /\ (f.command \in {OK, NG} => f.sub_command = None /\ f.data = <<>>)
    /\ (f.sub_command = None => f.data = <<>>)

\* A frame was constructed and encoded with nothing in front, and the bytes
\* have been parsed.
RoundTripDone == c_pc = "parsed" /\ c_frame # None /\ c_garbage = <<>>

\* The parse gave the constructed frame back and consumed every byte of
\* its encoding.
RoundTripHolds ==
    c_parsed = [tag |-> "Some", frame |-> c_frame[1], consumed |-> Len(c_buf)]

\* C16 as stated: every constructed frame, whatever its fields, comes back
\* from Frame::parse(frame.to_bytes()) equal to itself, with bytes_consumed
\* the length of the encoding.
C16_RoundTripAnyFrame == RoundTripDone => RoundTripHolds

\* C16, amended: a constructed frame none of whose fields is the terminator
\* 0xFD, which has no sub-command and no data when its command is OK or NG,
\* and no data when it has no sub-command, comes back from
\* Frame::parse(frame.to_bytes()) equal to itself, with bytes_consumed the
\* length of the encoding.
C16_RoundTripDecoderForm ==
    (RoundTripDone /\ DecoderForm(c_frame[1]) /\ EOM \notin FieldBytes(c_frame[1]))
        => RoundTripHolds

C16_Witness ==
    /\ RoundTripDone
    /\ DecoderForm(c_frame[1])
    /\ EOM \notin FieldBytes(c_frame[1])
    /\ c_frame[1].sub_command = Some(PREAMBLE)
    /\ Len(c_frame[1].data) = MaxData
    /\ c_parsed.tag = "Some"
    /\ c_parsed.consumed = 6 + 1 + MaxData

\* No two consecutive preamble bytes in g.
NoTwoPreambles(g) ==
    \A i \in 1..(Len(g) - 1) : ~(g[i] = PREAMBLE /\ g[i + 1] = PREAMBLE)

\* C17: when a frame that round-trips on its own is encoded behind a run of
\* garbage bytes with no two consecutive 0xFE, Frame::parse of the whole
\* buffer returns that frame, and bytes_consumed is the length of the
\* frame's encoding, counted from the preamble and not from the start of
\* the buffer.
C17_GarbageBeforeFrame ==
    (/\ c_pc = "parsed"
     /\ c_frame # None
     /\ NoTwoPreambles(c_garbage)
     /\ DecoderForm(c_frame[1])
     /\ EOM \notin FieldBytes(c_frame[1]))
        => c_parsed = [tag |-> "Some", frame |-> c_frame[1],
                       consumed |-> Len(c_buf) - Len(c_garbage)]

\* Where the frame Frame::parse returned begins in the buffer.
ParsedStart == FindPreamble(c_buf)

\* The command byte of the frame Frame::parse returned, as it stands in the
\* buffer.
ParsedCommand == c_buf[ParsedStart + 4]

\* The bytes between that command byte and the terminator.
ParsedPayload ==
    SubSeq(c_buf, ParsedStart + 5, ParsedStart + c_parsed.consumed - 2)

\* C18: the frame Frame::parse returns has no sub-command and no data when
\* its command is OK or NG, whatever lies between the command byte and the
\* terminator; otherwise it has neither when nothing lies there, and else
\* the first byte there is its sub-command and the rest is its data, so one
\* byte there is a sub-command with no data.
C18_PayloadSplit ==
    (c_pc = "parsed" /\ c_parsed.tag = "Some") =>
        LET f == c_parsed.frame
            p == ParsedPayload
        IN /\ f.command = ParsedCommand
           /\ c_buf[ParsedStart + c_parsed.consumed - 1] = EOM
           /\ (f.command \in {OK, NG} => f.sub_command = None /\ f.data = <<>>)
           /\ (f.command \notin {OK, NG} /\ Len(p) = 0 =>
                  f.sub_command = None /\ f.data = <<>>)
           /\ (f.command \notin {OK, NG} /\ Len(p) >= 1 =>
                  f.sub_command = Some(p[1]) /\ f.data = SubSeq(p, 2, Len(p)))
           /\ (f.command \notin {OK, NG} /\ Len(p) = 1 =>
                  f.sub_command # None /\ f.data = <<>>)

C18_Witness ==
    /\ c_pc = "parsed"
    /\ c_parsed.tag = "Some"
    /\ c_parsed.frame.command \notin {OK, NG}
    /\ Len(ParsedPayload) = 1
    /\ c_parsed.frame.sub_command = Some(PREAMBLE)
    /\ c_frame # None
    /\ c_frame[1].sub_command = None

\* The buffer has two consecutive preamble bytes starting at i.
PreambleAt(b, i) == i + 1 <= Len(b) /\ b[i] = PREAMBLE /\ b[i + 1] = PREAMBLE

\* i is where the first preamble run of b begins.
FirstPreamble(b, i) == PreambleAt(b, i) /\ \A k \in 1..(i - 1) : ~PreambleAt(b, k)

\* j is the first terminator of b at or after i.
FirstTerminator(b, i, j) ==
    /\ j \in i..Len(b)
    /\ b[j] = EOM
    /\ \A k \in i..(j - 1) : b[k] # EOM

\* C19: Frame::parse has three outcomes and leaves the buffer as it was.
\* It returns Ok(None) exactly when the buffer has no two consecutive
\* preamble bytes or has no terminator at or after the first such pair;
\* InvalidFrame exactly when the span from that pair to the first terminator
\* after it is shorter than 6 bytes; and otherwise a frame, whose
\* bytes_consumed is the length of that span.  This holds for every buffer,
\* the empty one included.
C19_ThreeOutcomes ==
    /\ [](c_pc = "parsed" =>
            LET b == c_buf
                starts == {i \in 1..Len(b) : FirstPreamble(b, i)}
                spans == {<<i, j>> \in (1..Len(b)) \X (1..Len(b)) :
                            FirstPreamble(b, i) /\ FirstTerminator(b, i, j)}
            IN /\ c_parsed.tag \in {"None", "Err", "Some"}
               /\ (c_parsed.tag = "None" <=> spans = {})
               /\ (c_parsed.tag = "Err" <=>
                     \E sp \in spans : sp[2] - sp[1] + 1 < 6)
               /\ (c_parsed.tag = "Some" <=>
                     \E sp \in spans : sp[2] - sp[1] + 1 >= 6)
               /\ (c_parsed.tag = "Some" =>
                     \A sp \in spans : c_parsed.consumed = sp[2] - sp[1] + 1)
               /\ (starts = {} => c_parsed.tag = "None"))
    /\ [][c_pc = "bytes" /\ c_pc' = "parsed" => c_buf' = c_buf]_vars

C19_Witness ==
    /\ c_pc = "parsed"
    /\ c_frame = None
    /\ Len(c_buf) = MaxRaw
    /\ c_buf[1] = EOM
    /\ c_buf[2] = PREAMBLE
    /\ c_buf[3] = PREAMBLE
    /\ c_parsed.tag = "Some"
    /\ c_parsed.consumed = 6

\* C20: parse_response returns Response::Ok for every frame whose command
\* byte is 0xFB and Response::Ng for every frame whose command byte is 0xFA,
\* whichever Command the frame is decoded for and whatever sub-command and
\* data the frame carries.
C20_OkNgBeforeCommand ==
    c_pc = "responded" =>
        /\ (c_frame[1].command = OK => c_response = [tag |-> "Ok"])
        /\ (c_frame[1].command = NG => c_response = [tag |-> "Ng"])

C20_Witness ==
    /\ c_pc = "responded"
    /\ c_frame[1].command = NG
    /\ c_frame[1].sub_command = Some(0)
    /\ Len(c_frame[1].data) = MaxData
    /\ c_command.tag = "ReadGpsPosition"
    /\ c_response = [tag |-> "Ng"]

\* ---------------------------------------------- claims: response decoding
\* The frame has the sub-command and the payload length that the decoder of
\* read command c expects.
ExpectedShape(f, c) ==
    CASE c.tag = "ReadFrequency" -> Len(Payload(f)) = 5
      [] c.tag = "ReadMode" -> f.sub_command # None /\ Len(f.data) = 1
      [] c.tag \in {"ReadLevel", "ReadMeter"} ->
           f.sub_command = Some(c.sub) /\ Len(f.data) = 2
      [] c.tag = "ReadVarious" -> f.sub_command = Some(c.sub) /\ Len(f.data) = 1
      [] c.tag = "ReadDuplex" -> f.sub_command # None /\ Len(f.data) = 0
      [] c.tag = "ReadTone" -> f.sub_command = Some(c.sub) /\ Len(f.data) = 3
      [] c.tag = "ReadGpsPosition" ->
           f.sub_command = Some(0) /\ Len(f.data) = GPS_DATA_LEN

\* The read commands whose expected payload is stated.
ShapedReads == {"ReadFrequency", "ReadMode", "ReadLevel", "ReadMeter",
                "ReadVarious", "ReadDuplex", "ReadTone", "ReadGpsPosition"}

\* C21: when a frame that is neither OK nor NG is decoded for a read
\* command and its sub-command is not the expected one or its payload has
\* not exactly the expected length (frequency 5 payload bytes; mode the mode
\* byte and 1 filter byte; level and meter 2 data bytes; various 1; duplex
\* 0; tone/DTCS 3; GPS 27), the result is InvalidFrame.
C21_ShapeCheckedBeforeDecoding ==
    (/\ c_pc = "responded"
     /\ c_frame[1].command \notin {OK, NG}
     /\ c_command.tag \in ShapedReads
     /\ ~ExpectedShape(c_frame[1], c_command))
        => c_response = Err("InvalidFrame")

\* ------------------------------------------- claims: the typed operations
\* The client's typed operation has returned; result is what its
\* send_command returned.
OpReturned == pc = "idle" /\ calls > 0 /\ op_result # NoResult

\* The variant read_mode and select_vfo_a return the value of.
ExpectedVariant ==
    CASE command.tag = "ReadMode" -> "Mode"
      [] command.tag = "SelectVfoA" -> "Ok"

\* C22: a typed operation returns a value exactly when send_command gave
\* the one Response variant the operation expects, and the value is the one
\* that variant carries; Response::Ng becomes CivError::Ng, every other
\* variant becomes CivError::InvalidFrame, and an error of send_command is
\* returned as it is.
C22_TypedOperationMatch ==
    OpReturned =>
        /\ op_result.tag \in {"Val", "Err"}
        /\ (op_result.tag = "Val" <=> result.tag = ExpectedVariant)
        /\ (result.tag = "Mode" /\ command.tag = "ReadMode" =>
              op_result = Val(result.mode))
        /\ (result.tag = "Ok" /\ command.tag = "SelectVfoA" =>
              op_result = Val(<<>>))
        /\ (result.tag = "Ng" => op_result = Err("Ng"))
        /\ (result.tag = "Err" => op_result = result)
        /\ (result.tag \notin {ExpectedVariant, "Ng", "Err"} =>
              op_result = Err("InvalidFrame"))

C22_Witness ==
    /\ OpReturned
    /\ calls = MaxCalls
    /\ command.tag = "ReadMode"
    /\ result.tag = "Ok"
    /\ op_result = Err("InvalidFrame")
    /\ prev = Err("Timeout")

\* ---- C23
\* The use of the numeric types has applied the named conversion.
NumDone(op) == n_pc = "out" /\ n_out.op = op

\* C23: for every v in 0..=9_999_999_999, Frequency::from_hz(v) succeeds,
\* to_civ_bytes gives 5 bytes, and Frequency::from_civ_bytes of those bytes
\* succeeds with the same frequency.
C23_FrequencyRoundTrip ==
    (NumDone("frequency") /\ n_in.hz.q <= MAX_HZ_DIV_100) =>
        /\ n_out.made = Val(n_in.hz)
        /\ n_out.bytes.tag = "Val"
        /\ Len(n_out.bytes.v) = 5
        /\ n_out.back = Val(n_in.hz)

\* 9_999_999_999 Hz went through the round trip as 99 99 99 99 99.
C23_Witness ==
    /\ NumDone("frequency")
    /\ n_in.hz = U64(MAX_HZ_DIV_100, 99)
    /\ n_out.bytes = Val(<<153, 153, 153, 153, 153>>)
    /\ n_out.back = Val(n_in.hz)

\* ---- C24
\* Both nibbles of b are at most 9.
BothNibblesDecimal(b) == b \div 16 <= 9 /\ b % 16 <= 9

\* C24: decode_bcd_byte(b) succeeds exactly when both nibbles of b are at
\* most 9, and then encode_bcd_byte of its value is b; otherwise it fails
\* with InvalidBcd(b); encode_bcd_byte(v) fails, with InvalidBcd(v),
\* exactly when v > 99.
C24_BcdByte ==
    /\ NumDone("decode") =>
        /\ n_out.dec.tag = "Val" <=> BothNibblesDecimal(n_in.b)
        /\ n_out.dec.tag = "Val" =>
            /\ n_out.dec.v = 10 * (n_in.b \div 16) + (n_in.b % 16)
            /\ n_out.enc = Val(n_in.b)
        /\ n_out.dec.tag # "Val" =>
            n_out.dec = [tag |-> "Err", err |-> "InvalidBcd", byte |-> n_in.b]
    /\ NumDone("encode") =>
        /\ n_out.enc.tag = "Err" <=> n_in.b > 99
        /\ n_out.enc.tag = "Err" =>
            n_out.enc = [tag |-> "Err", err |-> "InvalidBcd", byte |-> n_in.b]
        /\ n_out.enc.tag \in {"Val", "Err"}

\* 0x45 decoded to 45 and encoded back to 0x45.
C24_Witness ==
    /\ NumDone("decode")
    /\ n_in.b = 69
    /\ n_out.dec = Val(45)
    /\ n_out.enc = Val(69)

\* 0x4A failed with InvalidBcd(0x4A).
C24_WitnessInvalid ==
    /\ NumDone("decode")
    /\ n_in.b = 74
    /\ n_out.dec.tag = "Err"

\* ---- C25
\* The pairs the claim lists, with the mode each stands for.
ListedMode(mode, filter) ==
    CASE mode = 5 /\ filter = 1 -> "Fm"
      [] mode = 5 /\ filter = 2 -> "FmN"
      [] mode = 2 /\ filter = 1 -> "Am"
      [] mode = 2 /\ filter = 2 -> "AmN"
      [] mode = 23 -> "Dv"
      [] OTHER -> "none"

\* C25: OperatingMode::from_civ_bytes succeeds exactly on (0x05,0x01),
\* (0x05,0x02), (0x02,0x01), (0x02,0x02) and (0x17, any filter) and fails
\* with UnknownMode on every other pair; decoding, encoding and decoding
\* again gives the first decoding; each of the five modes encodes and
\* decodes to itself.
C25_ModePairs ==
    /\ NumDone("mode_pair") =>
        LET listed == ListedMode(n_in.mode, n_in.filter) IN
        /\ listed # "none" =>
            /\ n_out.dec = Val(listed)
            /\ n_out.back = n_out.dec
        /\ listed = "none" =>
            /\ n_out.dec.tag = "Err"
            /\ n_out.dec.err = "UnknownMode"
    /\ NumDone("mode") => n_out.back = Val(n_in.mode)

\* (0x17, 0x09) decoded to Dv, which encodes as (0x17, 0x01) and decodes
\* to Dv again.
C25_Witness ==
    /\ NumDone("mode_pair")
    /\ n_in.mode = 23 /\ n_in.filter = 9
    /\ n_out.dec = Val("Dv")
    /\ n_out.bytes = <<23, 1>>
    /\ n_out.back = Val("Dv")

\* ---- C26
\* The i-th pair of decimal digits of hz, the lowest first.
PairOf(hz, i) ==
    CASE i = 1 -> hz.r
      [] i = 2 -> hz.q % 100
      [] i = 3 -> (hz.q \div 100) % 100
      [] i = 4 -> (hz.q \div 10000) % 100
      [] i = 5 -> (hz.q \div 1000000) % 100

\* The 5-byte little-endian BCD of hz.
LeBcd5(hz) ==
    [i \in 1..5 |-> (PairOf(hz, i) \div 10) * 16 + (PairOf(hz, i) % 10)]

\* C26: for every valid frequency f the bytes of SetFrequency(f) are
\* FE FE B4 E0 05, the 5-byte little-endian BCD of f, and FD; for
\* 145_000_000 Hz they are FE FE B4 E0 05 00 00 00 45 01 FD.
C26_SetFrequencyBytes ==
    (NumDone("set_frequency") /\ n_in.hz.q <= MAX_HZ_DIV_100) =>
        /\ n_out.bytes = <<254, 254, 180, 224, 5>> \o LeBcd5(n_in.hz) \o <<253>>
        /\ n_in.hz = U64(1450000, 0) =>
            n_out.bytes = <<254, 254, 180, 224, 5, 0, 0, 0, 69, 1, 253>>

\* SetFrequency(145_000_000 Hz) was encoded.
C26_Witness ==
    /\ NumDone("set_frequency")
    /\ n_in.hz = U64(1450000, 0)
    /\ Len(n_out.bytes) = 11

\* ---- C27
\* C27: for each tone sub-command s in {0x00, 0x01} and every u16 f, the
\* data of SetTone(s, f).to_frame() are 3 bytes that parse_response with
\* ReadTone(s) decodes to ToneFrequency(s, f); [0x00, 0x14, 0x13] under
\* sub-command 0x00 decodes to ToneFrequency(0x00, 1413).
C27_ToneRoundTrip ==
    NumDone("tone") =>
        /\ Len(n_out.data) = 3
        /\ n_out.back = [tag |-> "ToneFrequency", sub |-> n_in.sub, freq |-> n_in.freq]
        /\ n_out.data = <<0, 20, 19>> /\ n_in.sub = 0 =>
            n_out.back = [tag |-> "ToneFrequency", sub |-> 0, freq |-> 1413]

\* The round trip of the frequencies that fit four decimal digits.
C27_ToneRoundTripFourDigits ==
    (NumDone("tone") /\ n_in.freq <= 9999) =>
        /\ Len(n_out.data) = 3
        /\ n_out.back = [tag |-> "ToneFrequency", sub |-> n_in.sub, freq |-> n_in.freq]

\* SetTone(0x00, 1413) gave [0x00, 0x14, 0x13], decoded to
\* ToneFrequency(0x00, 1413).
C27_WitnessFourDigits ==
    /\ NumDone("tone")
    /\ n_in.sub = 0 /\ n_in.freq = 1413
    /\ n_out.data = <<0, 20, 19>>
    /\ n_out.back = [tag |-> "ToneFrequency", sub |-> 0, freq |-> 1413]

\* ---- C28
\* C28: the frame send_command returns was received after the command was
\* written: no byte of it was in the receive buffer when the call began.
C28_ReplyReadAfterWrite ==
    [][(pc = "parse" /\ response_frame' # None) => FindPreamble(buf) > stale]_vars

\* ---- C29
\* C29: after a call that failed with InvalidFrame, a later call whose reply
\* the device sends and the call reads before the deadline returns that
\* reply.
C29_RecoversAfterInvalidFrame ==
    (/\ Returned
     /\ prev = Err("InvalidFrame")
     /\ Len(script) = 1
     /\ IsReply(script[1])
     /\ line = <<>>
     /\ result # Err("Io")) =>
        /\ response_frame = Some(FrameOf(script[1]))
        /\ result = parse_response(FrameOf(script[1]), command)

\* ---- C30
\* b holds, from position i on, the bytes of a frame for the controller
\* that carries OK, NG or the expected command byte.
QualifyingFrameAt(b, i) ==
    \E f \in DeviceFrames :
        /\ IsReply(to_bytes(f))
        /\ i + Len(to_bytes(f)) - 1 <= Len(b)
        /\ SubSeq(b, i, i + Len(to_bytes(f)) - 1) = to_bytes(f)

\* The receive buffer holds a complete frame that qualifies as the reply.
HoldsQualifyingFrame == \E i \in 1..Len(buf) : QualifyingFrameAt(buf, i)

\* C30: read_response does not return Timeout while the receive buffer holds
\* a complete well-formed frame that qualifies as the reply.
C30_NoTimeoutOverReply ==
    (Returned /\ result = Err("Timeout")) => ~HoldsQualifyingFrame

\* ---- C31
\* The call that returned was a set or select operation.
SetOperation ==
    command.tag \in {"SetFrequency", "SetMode", "SetLevel", "SelectVfoA",
                     "SelectVfoB", "SetVarious", "SetTone", "SetDtcs"}

\* C31: a set operation returns success only when the frame accepted as its
\* reply is the OK frame.
C31_SetSucceedsOnlyOnOk ==
    (OpReturned /\ SetOperation /\ op_result.tag = "Val") =>
        /\ response_frame # None
        /\ response_frame[1].command = OK

\* ---- C32
\* 100^len
Pow100(len) == IF len = 0 THEN 1 ELSE IF len = 1 THEN 100 ELSE 10000

\* C32: when encode_bcd_le(v, len) or encode_bcd_be(v, len) returns bytes,
\* there are len of them and the matching decoder gives v back; a value of
\* 100^len or more is reported as an error.
C32_EncodeFitsOrFails ==
    /\ (NumDone("bcd_le") /\ n_in.len <= 2) =>
        /\ n_out.enc.tag = "Val" =>
            /\ Len(n_out.enc.v) = n_in.len
            /\ n_out.dec = Val(U64(n_in.value \div 100, n_in.value % 100))
        /\ n_in.value >= Pow100(n_in.len) => n_out.enc.tag = "Err"
    /\ (NumDone("bcd_be") /\ n_in.len <= 2) =>
        /\ n_out.enc.tag = "Val" =>
            /\ Len(n_out.enc.v) = n_in.len
            /\ n_out.dec = Val(n_in.value)
        /\ n_in.value >= Pow100(n_in.len) => n_out.enc.tag = "Err"

\* The same for the values that fit: the bytes have length len and decode
\* to the value.
C32_RoundTripWhenFits ==
    /\ (NumDone("bcd_le") /\ n_in.len <= 2 /\ n_in.value < Pow100(n_in.len)) =>
        /\ n_out.enc.tag = "Val"
        /\ Len(n_out.enc.v) = n_in.len
        /\ n_out.dec = Val(U64(n_in.value \div 100, n_in.value % 100))
    /\ (NumDone("bcd_be") /\ n_in.len <= 2 /\ n_in.value < Pow100(n_in.len)) =>
        /\ n_out.enc.tag = "Val"
        /\ Len(n_out.enc.v) = n_in.len
        /\ n_out.dec = Val(n_in.value)

\* ---- C33
\* The variants of Response.
ResponseTags ==
    {"Ok", "Ng", "Frequency", "Mode", "Level", "Meter", "TransceiverId",
     "Various", "Duplex", "Offset", "ToneFrequency", "DtcsCode", "GpsPosition"}

\* C33: parse_response returns a Response or an error for every command and
\* every frame, whatever its sub-command and the length of its data; a
\* tone/DTCS answer whose data are not 3 bytes and a GPS answer whose data
\* are not 27 bytes give InvalidFrame.
C33_NoIndexOutsideData ==
    c_pc = "responded" =>
        /\ c_response.tag \in ResponseTags \cup {"Err"}
        /\ (/\ c_frame[1].command \notin {OK, NG}
            /\ c_command.tag = "ReadTone"
            /\ Len(c_frame[1].data) # 3) => c_response = Err("InvalidFrame")
        /\ (/\ c_frame[1].command \notin {OK, NG}
            /\ c_command.tag = "ReadGpsPosition"
            /\ Len(c_frame[1].data) # 27) => c_response = Err("InvalidFrame")

\* A GPS answer with sub-command 0x00 and 28 data bytes gave InvalidFrame.
C33_Witness ==
    /\ c_pc = "responded"
    /\ c_command.tag = "ReadGpsPosition"
    /\ c_frame[1].command \notin {OK, NG}
    /\ c_frame[1].sub_command = Some(0)
    /\ Len(c_frame[1].data) = 28
    /\ c_response = Err("InvalidFrame")

\* A tone answer with the expected sub-command and no data gave
\* InvalidFrame.
C33_WitnessToneEmpty ==
    /\ c_pc = "responded"
    /\ c_command = [tag |-> "ReadTone", sub |-> REPEATER_TONE]
    /\ c_frame[1].command \notin {OK, NG}
    /\ c_frame[1].sub_command = Some(REPEATER_TONE)
    /\ c_frame[1].data = <<>>
    /\ c_response = Err("InvalidFrame")

\* ---- C34
\* The cache holds what the poll cycle read.
StoresPoll(cache) ==
    /\ cache.frequency = polled["frequency"]
    /\ cache.mode = polled["mode"]
    /\ cache.rf_power = polled["rf_power"]
    /\ cache.tone_mode = polled["tone_mode"]
    /\ cache.duplex = polled["duplex"]
    /\ cache.offset = polled["offset"]
    /\ cache.tx_tone_freq = polled["tx_tone_freq"]
    /\ cache.rx_tone_freq = polled["rx_tone_freq"]
    /\ (polled["dtcs"] = None =>
          cache.dtcs_code = None /\ cache.dtcs_tx_pol = None /\ cache.dtcs_rx_pol = None)
    /\ (polled["dtcs"] # None =>
          /\ cache.dtcs_tx_pol = Some(polled["dtcs"][1][1])
          /\ cache.dtcs_rx_pol = Some(polled["dtcs"][1][2])
          /\ cache.dtcs_code = Some(polled["dtcs"][1][3]))

\* C34: at the end of an iteration the poll result is stored in the cache of
\* the active VFO and the other cache keeps its value; the snapshot that is
\* sent carries both caches; no other step of the worker, the session or the
\* frontend changes a cache.
C34_PollStoredInActiveCacheOnly ==
    [][/\ ((wpc = "emit" /\ wpc' # "emit") =>
            /\ (active_vfo = "A" =>
                   StoresPoll(cached_vfo_a') /\ cached_vfo_b' = cached_vfo_b)
            /\ (active_vfo = "B" =>
                   StoresPoll(cached_vfo_b') /\ cached_vfo_a' = cached_vfo_a)
            /\ (event_open =>
                   /\ Len(events') = Len(events) + 1
                   /\ events'[Len(events')].tag = "StateUpdate"
                   /\ events'[Len(events')].vfo_a = cached_vfo_a'
                   /\ events'[Len(events')].vfo_b = cached_vfo_b'))
       /\ (~(wpc = "emit" /\ wpc' # "emit") =>
            UNCHANGED <<cached_vfo_a, cached_vfo_b>>)]_vars

\* The first iteration polled on VFO A, the second took SelectVfo(B) and
\* polled on VFO B: the second snapshot repeats VFO A's frequency as the
\* first iteration stored it and carries VFO B's new one.
C34_Witness ==
    /\ wpc = "sleep"
    /\ iters = 1
    /\ active_vfo = "B"
    /\ cached_vfo_a.frequency = Some(U64(1450000, 0))
    /\ cached_vfo_b.frequency = Some(U64(4330000, 0))
    /\ events[Len(events)].tag = "StateUpdate"
    /\ events[Len(events)].vfo_a = cached_vfo_a
    /\ events[Len(events)].vfo_b = cached_vfo_b

\* ------------------------------------------------------------------- C35
\* The step in which the worker learns that its SelectVfo command failed:
\* the radio answered NG, or no answer came before the deadline.
SelectFailedStep ==
    /\ wpc = "exec"
    /\ wpc' = "poll"
    /\ command.tag \in {"SelectVfoA", "SelectVfoB"}
    /\ Expect(result, "Ok") \in {Err("Ng"), Err("Timeout")}

\* C35: the worker's active VFO changes only when the radio accepted the
\* selection.  The worker starts on A, the frontend of this model selects only
\* B, and the device leaves A only by accepting a selection; so while the
\* device is on A no selection was accepted, and after a SelectVfo(B) that the
\* radio rejected or that timed out the worker's active VFO is still A and
\* the next poll cycle is stored in the cache of A.
C35_ActiveVfoOnlyOnAcceptance ==
    [][(SelectFailedStep /\ dev_vfo = "A") => active_vfo' = "A"]_vars

\* The same failure seen at the cache: the poll cycle taken while the device
\* is on A is never written to the cache of B.
C35_PolledBandIsRecordedBand ==
    [][(wpc = "emit" /\ wpc' # "emit" /\ dev_vfo = "A") =>
          cached_vfo_b' = cached_vfo_b]_vars

\* ------------------------------------------------------------------- C36
\* The worker's step out of execute_command.
ExecutedStep == wpc = "exec" /\ wpc' # "exec"

\* The command the worker executed failed: NG, Timeout, InvalidFrame or Io.
CommandFailed == result.tag \in {"Err", "Ng"}

\* What the Error event of the failed command carries.
FailureOf(r) == IF r.tag = "Ng" THEN "Ng" ELSE r.err

\* The Error events the worker has sent.
ErrorEvents == SelectSeq(events, LAMBDA e : e.tag = "Error")

\* C36: a command from the queue that fails gives one Error event (none
\* when it succeeds), and the worker goes on to the poll cycle; the worker
\* returns only after Quit or when a channel is closed, never because a
\* command failed; and whatever happened to earlier commands, the next command
\* that waits at the head of the loop is the one the worker takes.
C36_FailedCommandDoesNotStopWorker ==
    [][/\ (ExecutedStep =>
             /\ wpc' = "poll"
             /\ events' = IF CommandFailed /\ event_open
                          THEN Append(events, [tag |-> "Error",
                                               err |-> FailureOf(result)])
                          ELSE events)
       /\ (~ExecutedStep => Len(ErrorEvents') = Len(ErrorEvents))
       /\ (wpc' = "returned" => QuitTaken' \/ ~cmd_open \/ ~event_open)
       /\ ((wpc = "recv" /\ wpc' # "recv" /\ cmd_rx # <<>>) =>
             /\ taken' = Append(taken, Head(cmd_rx))
             /\ cmd_rx' = Tail(cmd_rx))]_vars

\* The first command was rejected and reported once, the worker went through
\* the poll cycle, and the second command was taken and written in the next
\* iteration.
C36_Witness ==
    /\ wpc = "exec"
    /\ iters = 1
    /\ Len(taken) = 2
    /\ Len(CommandWrites) = 2
    /\ Len(ErrorEvents) = 1
    /\ ErrorEvents[1].err = "Ng"
    /\ StateUpdates = 1

\* ------------------------------------------------------------------- C37
\* Quit waits at place k of the command queue at the head of an iteration,
\* behind k - 1 other commands, and the iterations it needs are within those
\* the model runs.
QuitWaitsAt(k) ==
    /\ wpc = "recv"
    /\ Len(cmd_rx) >= k
    /\ cmd_rx[k].tag = "Quit"
    /\ \A j \in 1..(k - 1) : cmd_rx[j].tag # "Quit"
    /\ iters + k <= MaxIters

\* The worker has taken Quit, said Disconnected and returned.
QuitServed ==
    /\ wpc = "returned"
    /\ QuitTaken
    /\ events # <<>>
    /\ events[Len(events)].tag = "Disconnected"

\* C37: a Quit on the command queue is eventually dequeued, answered with
\* Disconnected and followed by the worker's return, as long as the event
\* receiver stays open and every port read returns (with bytes or at its
\* timeout).  The worker takes the commands in the order they were queued and
\* at most one in each iteration, so each command ahead of Quit costs one
\* iteration and Quit is neither skipped nor taken early.
C37_QuitEventuallyServed ==
    /\ \A k \in 1..MaxEnqueue : QuitWaitsAt(k) ~> (QuitServed \/ ~event_open)
    /\ [](IsPrefix(taken, enqueued))
    /\ [](Len(taken) <= iters + 1)
    /\ [][\A k \in 2..MaxEnqueue :
            (QuitWaitsAt(k) /\ wpc' # "recv") =>
               ~QuitTaken' /\ wpc' = "exec"]_vars

\* Quit was queued behind another command, and was served one iteration
\* after it.
C37_Witness ==
    /\ QuitServed
    /\ event_open
    /\ Len(taken) = 2
    /\ taken[1].tag # "Quit"
    /\ iters = 1
    /\ StateUpdates = 1

\* ------------------------------------------------------------------- C38
\* The side that was edited and the side that was not, read from a tone mode.
EditedSide(code) == current_tone_type(code, n_in.is_tx)
OtherSide(code) == current_tone_type(code, ~n_in.is_tx)

\* The edit asks for TPL on Tx with DPL on Rx, the pair the radio has no
\* tone mode for.
AsksTplDpl ==
    \/ n_in.is_tx /\ n_in.new_type = "Tpl" /\ current_tone_type(n_in.code, FALSE) = "Dpl"
    \/ ~n_in.is_tx /\ n_in.new_type = "Dpl" /\ current_tone_type(n_in.code, TRUE) = "Tpl"

\* C38 as stated: for every tone mode in 0x00..=0x09, every side and every
\* new type, the mode compute_tone_mode returns reads back through
\* current_tone_type as the new type on the edited side and as the previous
\* type on the other side.
C38_EditKeepsOtherSide ==
    (NumDone("tone_edit") /\ n_in.code \in 0..9) =>
        /\ EditedSide(n_out.new_mode) = n_in.new_type
        /\ OtherSide(n_out.new_mode) = OtherSide(n_in.code)

\* C38, amended: the same, except when the edit asks for TPL on Tx together
\* with DPL on Rx, which has no tone mode; then compute_tone_mode returns
\* 0x09, which reads back as TPL on both sides.
C38_EditKeepsOtherSideButTplDpl ==
    (NumDone("tone_edit") /\ n_in.code \in 0..9) =>
        IF AsksTplDpl
        THEN n_out.new_mode = 9 /\ n_out.tx = "Tpl" /\ n_out.rx = "Tpl"
        ELSE /\ EditedSide(n_out.new_mode) = n_in.new_type
             /\ OtherSide(n_out.new_mode) = OtherSide(n_in.code)
             /\ n_out.tx = current_tone_type(n_out.new_mode, TRUE)
             /\ n_out.rx = current_tone_type(n_out.new_mode, FALSE)

\* Rx was edited from TPL to DPL on 0x08 (DPL, TPL): the new mode is 0x07 and
\* Tx is still DPL.
C38_Witness ==
    /\ NumDone("tone_edit")
    /\ n_in = [kind |-> "tone_edit", code |-> 8, is_tx |-> FALSE, new_type |-> "Dpl"]
    /\ n_out.new_mode = 7
    /\ n_out.tx = "Dpl"
    /\ n_out.rx = "Dpl"

\* Tx was edited to TPL on 0x03 (CSQ, DPL): the new mode is 0x09 and Rx reads
\* TPL.
C38_WitnessTplDpl ==
    /\ NumDone("tone_edit")
    /\ n_in = [kind |-> "tone_edit", code |-> 3, is_tx |-> TRUE, new_type |-> "Tpl"]
    /\ n_out.new_mode = 9
    /\ n_out.rx = "Tpl"

\* ------------------------------------------------------------------- C39
\* The objects all calls of feed have returned so far, in order; a call that
\* returned an error returned none.
RECURSIVE ReportedIn(_)
ReportedIn(results) ==
    IF results = <<>> THEN <<>>
    ELSE (IF Head(results).tag = "Val" THEN Head(results).v ELSE <<>>)
         \o ReportedIn(Tail(results))

\* A run of the stream that is a well-formed frame not sent by the
\* controller and that frame_to_js has an object for.
RadioFrameRun(run) ==
    LET r == Frame_parse(run) IN
    /\ r.tag = "Some"
    /\ r.consumed = Len(run)
    /\ r.frame.src # ADDR_CONTROLLER
    /\ frame_to_js(r.frame).tag = "Val"

\* The objects of the radio's frames in a stream, in arrival order.
RECURSIVE ExpectedOf(_)
ExpectedOf(runs) ==
    IF runs = <<>> THEN <<>>
    ELSE (IF RadioFrameRun(Head(runs))
          THEN <<frame_to_js(Frame_parse(Head(runs)).frame).v>>
          ELSE <<>>)
         \o ExpectedOf(Tail(runs))

\* C39: every well-formed frame from the radio among the bytes passed to
\* feed is in the result of some call of feed, exactly once and in arrival
\* order, whatever shares its chunk and however the bytes were split: when the
\* whole stream was fed and buf holds nothing a later call could report, the
\* calls together have returned the objects of the radio's frames, in order.
C39_EveryFrameReportedOnce ==
    (fb_pc = "on" /\ fb_rest = <<>> /\ fb_buf = <<>>) =>
        ReportedIn(fb_results) = ExpectedOf(fb_stream)

\* The part that holds: no call reports a frame twice, out of order, or one
\* that was not in the stream.
C39_ReportedInOrder ==
    fb_pc = "on" =>
        \E keep \in SUBSET (1..Len(ExpectedOf(fb_stream))) :
            LET e == ExpectedOf(fb_stream)
                F(i) == i \in keep
                idx == SelectSeq([i \in 1..Len(e) |-> i], F)
            IN ReportedIn(fb_results) = [j \in 1..Len(idx) |-> e[idx[j]]]

====
